---- MODULE Spec2Model ----
(***************************************************************************)
(* Multi-timeframe candle cache of package market (kline_cache.go) and the *)
(* signal detector that reads it (signal_detector.go): InitSymbol,         *)
(* UpdateSymbol, the GetKlines family and the detectors run by concurrent  *)
(* callers against a market data provider that may fail or answer with     *)
(* fewer candles than asked.                                               *)
(* The detector rules are also run on candles of every shape, and          *)
(* FilterStrongSignals and CombineSignals on lists of signals.             *)
(* waitForOrderFilled of package trader (backpack_trader.go) polls the     *)
(* status of an order until it is filled, refused, or the wait is over.    *)
(***************************************************************************)
EXTENDS Integers, Sequences, FiniteSets, TLC

(* ------------------------------ constants ------------------------------ *)

\* timeFrames, in the order both loops walk them
TimeFrames == <<"5m", "15m", "30m", "1h", "4h", "1d">>

\* maxKeep := 20, the retention of UpdateSymbol
maxKeep == 20

\* UpdateSymbol asks the provider for the latest 2 candles
updateLimit == 2

\* waitForOrderFilled waits 30 seconds when it is given none, and checks
\* the order twice a second
defaultWaitSeconds == 30
checksPerSecond == 2

(* ------------------------------- bounds -------------------------------- *)

\* half-period ticks of the market clock in one run
MaxTicks == 2

\* Spec, the concurrent callers: calls each caller starts, and provider
\* fetches that answer with candles (not an error), in one run
ConcCalls == 1
ConcOk == 1

\* SpecSeq, one caller alone: the calls it starts, and provider fetches that
\* answer with candles, in one run
SeqCalls == 3
SeqOk == 3

\* SpecRead, one caller alone: how many of its calls may be reads, and
\* how many provider calls may answer with candles
SeqReads == 1
ReadOk == 2

\* SpecShare: calls of caller 1, of which at most ConcCalls are reads
ShareCalls == 2

\* SpecDetect: the candles the detector rules are run on.  Prices are in
\* ticks of half a price unit.  A pin-bar candle has its low at PriceBase
\* and its open, high and close up to PriceSpan ticks above it; the opens
\* and closes of an engulfing pair are up to BodySpan ticks above
\* PriceBase; the volumes of a volume-spike pair are up to VolSpan times
\* VolUnit.
PriceSpan == 14
BodySpan == 6
VolSpan == 10
PriceBase == 180
VolUnit == 20

\* SpecSignals: the longest list of signals handed to FilterStrongSignals
\* and CombineSignals
MaxSignals == 3

\* SpecLimits: the limits handed to GetKlines are from -LimitSpan to
\* LimitSpan
LimitSpan == 3

\* SpecWait: the width of an int.  Go's int has 64 bits (32 on some
\* targets); the model's has IntBits, the fewest in which the 60 attempts
\* of the default wait fit
IntBits == 8

Procs == {1, 2}

\* the provider lists the first symbol only: every fetch for the other fails
Symbols == {"BTCUSDT", "XYZUSDT"}
Listed == {"BTCUSDT"}

\* and, of that symbol, these intervals only
Served == {"5m", "1h"}

\* the maxKlines the callers pass to InitSymbol
MaxKlinesSet == {1, maxKeep + 1}

\* the timeframes and the limits the callers pass to the GetKlines family and
\* to the detectors, and the timeframe lists they pass to DetectAllSignals
ReadFrames == {"5m", "15m"}
GetLimits == {1, maxKeep}
DetectLists == {<<"15m", "5m">>}

(* ------------------------------- helpers ------------------------------- *)

Min(a, b) == IF a < b THEN a ELSE b

Max(a, b) == IF a > b THEN a ELSE b

Last(s) == s[Len(s)]

\* a Go map: a function whose DOMAIN is the set of keys present
EmptyMap == [k \in {} |-> <<>>]

MapPut(m, k, v) == [x \in (DOMAIN m) \cup {k} |-> IF x = k THEN v ELSE m[x]]

\* m[k] of a Go map of slices: the nil slice when the key is absent
MapGet(m, k) == IF k \in DOMAIN m THEN m[k] ELSE <<>>

(* ------------------------------ provider ------------------------------- *)

\* The market: period FirstPeriod is forming at clock 0, and a new period
\* starts every second tick.  A candle that is still forming is in phase 0
\* or 1 (the phase of the clock), a closed candle is in phase 2; its prices
\* and its volume follow from the parity of its period and from its phase.
FirstPeriod == maxKeep + 1

Period(c) == FirstPeriod + (c \div 2)

Phase(t, c) == IF t < Period(c) THEN 2 ELSE c % 2

\* Open, High, Low, Close, Volume of a candle of period t in phase ph
Shape(t, ph) ==
    IF t % 2 = 1
    THEN CASE ph = 0 -> <<100, 100, 100, 100, 0>>
           [] ph = 1 -> <<100, 115, 50, 110, 20>>
           [] OTHER  -> <<100, 106, 94, 95, 10>>
    ELSE CASE ph = 0 -> <<94, 110, 93, 108, 20>>
           [] ph = 1 -> <<94, 130, 93, 97, 12>>
           [] OTHER  -> <<94, 110, 93, 104, 10>>

Candle(t, c) ==
    LET sh == Shape(t, Phase(t, c))
    IN  [OpenTime |-> t, Open |-> sh[1], High |-> sh[2], Low |-> sh[3],
         Close |-> sh[4], Volume |-> sh[5]]

\* a Kline
Kline(t, o, h, l, c, v) ==
    [OpenTime |-> t, Open |-> o, High |-> h, Low |-> l, Close |-> c,
     Volume |-> v]

\* the latest k candles at clock c, oldest first
Latest(c, k) ==
    LET n == Min(k, Period(c))
    IN  [j \in 1..n |-> Candle(Period(c) - n + j, c)]

\* what client.GetKlines returns: (klines, err)
Fail == [err |-> TRUE, klines |-> <<>>]

Ok(ks) == [err |-> FALSE, klines |-> ks]

\* the answers the provider may give to GetKlines(symbol, interval, limit)
\* at clock c: an error, or the latest limit candles, or (when at most
\* updateLimit are asked for) fewer of them
Answers(symbol, tf, limit, c, budget) ==
    {Fail} \cup
    IF symbol \in Listed /\ tf \in Served /\ budget > 0
    THEN {Ok(Latest(c, k)) : k \in {j \in 0..limit : j = limit \/ limit <= updateLimit}}
    ELSE {}

(* ------------------------- candles for the rules ------------------------ *)

\* {open 100, high 101, low 90, close 100.5}: upper shadow = body
PinBarExample == Kline(FirstPeriod, 200, 202, 180, 201, VolUnit)

\* single candles: every shape of open, high and close over the low
PinBarCandles ==
    {PinBarExample} \cup
    {Kline(FirstPeriod, PriceBase + x[1], PriceBase + x[2], PriceBase,
           PriceBase + x[3], VolUnit) :
        x \in {y \in (0..PriceSpan) \X (0..PriceSpan) \X (0..PriceSpan) :
                  y[2] >= y[1] /\ y[2] >= y[3]}}

\* two candles: the previous one, then the current one with every pair of
\* volumes; the current one closes below, at or above its open
VolumePairs ==
    {<<Kline(FirstPeriod, 200, 206, 194, 202, VolUnit * pv),
       Kline(FirstPeriod + 1, 202, 208, 196, 202 + d, VolUnit * cv)>> :
        pv \in 0..VolSpan, cv \in 0..VolSpan, d \in {-2, 0, 2}}

\* a candle without shadows
Body(t, o, c) == Kline(t, o, Max(o, c), Min(o, c), c, VolUnit)

\* previous {open 105, close 100}, current {open 99, close 107}
EngulfingExample ==
    <<Body(FirstPeriod, 210, 200), Body(FirstPeriod + 1, 198, 214)>>

\* two candles: every pair of bodies
EngulfingPairs ==
    {EngulfingExample} \cup
    {<<Body(FirstPeriod, PriceBase + po, PriceBase + pc0),
       Body(FirstPeriod + 1, PriceBase + co, PriceBase + cc)>> :
        po \in 0..BodySpan, pc0 \in 0..BodySpan,
        co \in 0..BodySpan, cc \in 0..BodySpan}

\* two candles on which all three rules fire (long), two on which only the
\* volume rule fires (short), and a series without candles
Patterns ==
    {<<Kline(FirstPeriod, 210, 212, 204, 206, 100),
       Kline(FirstPeriod + 1, 204, 212, 180, 212, 200)>>,
     <<Kline(FirstPeriod, 200, 206, 194, 202, 100),
       Kline(FirstPeriod + 1, 202, 208, 196, 200, 150)>>,
     <<>>}

\* mtk.Data of the one record of the cache: a 5m series for one rule, or a
\* 15m and a 5m series for DetectAllSignals
DetectData ==
    {MapPut(EmptyMap, "5m", <<k>>) : k \in PinBarCandles} \cup
    {MapPut(EmptyMap, "5m", ks) : ks \in VolumePairs \cup EngulfingPairs} \cup
    {MapPut(MapPut(EmptyMap, "5m", a), "15m", b) : a \in Patterns, b \in Patterns}

(* -------------------------------- state -------------------------------- *)

VARIABLES
    cache,        \* kc.cache: symbol -> mtk.Data (timeframe -> series)
    kcMu,         \* kc.mu: [w |-> writer or 0, r |-> readers]
    mtkMu,        \* mtk.mu of each symbol's record
    pc,           \* where each caller stands
    frame,        \* each caller's call: arguments, locals, return value
    now,          \* the market clock
    callsLeft,    \* calls each caller may still start
    readsLeft,    \* how many of them may be reads (GetKlines family, detectors)
    okLeft,       \* provider answers with candles that may still come
    initFetches,  \* provider calls InitSymbol has made, per symbol
    installs,     \* times a record was installed, per symbol
    initLimit,    \* the maxKlines of the InitSymbol that installed the record
    prevResp,     \* the answers the last finished UpdateSymbol got, per symbol
    held,         \* the timeframe of the stored series whose last element the
                  \* klines a caller was handed end in; "" when none does
    waitPc,          \* where the one call of waitForOrderFilled stands
    maxWaitSeconds,  \* its parameter, and its locals:
    maxAttempts,
    attempt,
    status,          \* what its latest getOrderStatus returned
    polls,           \* how many times it has called getOrderStatus
    waitRet          \* what it returned

cacheVars == <<cache, kcMu, mtkMu, pc, frame, now, callsLeft, readsLeft,
               okLeft, initFetches, installs, initLimit, prevResp, held>>

waitVars == <<waitPc, maxWaitSeconds, maxAttempts, attempt, status, polls,
              waitRet>>

vars == <<cacheVars, waitVars>>

\* waitForOrderFilled is not called
NotWaiting ==
    /\ waitPc = "idle"
    /\ maxWaitSeconds = 0
    /\ maxAttempts = 0
    /\ attempt = 0
    /\ status = ""
    /\ polls = 0
    /\ waitRet = "none"

FreeMu == [w |-> 0, r |-> {}]

\* (mutant) a Lock that excludes nobody
CanLockAlways(mu) == TRUE

\* sync.RWMutex.Lock returns once nobody holds the mutex
CanLock(mu) == mu.w = 0 /\ mu.r = {}

\* (mutant) an RLock that no writer keeps out
CanRLockAlways(mu) == TRUE

\* sync.RWMutex.RLock returns once no writer holds the mutex
CanRLock(mu) == mu.w = 0

NoFrame == [op |-> "none", symbol |-> "", maxKlines |-> 0, i |-> 0,
            mtk |-> EmptyMap, before |-> EmptyMap, resp |-> <<>>,
            todo |-> <<>>, out |-> <<>>, ret |-> "none"]

\* a call that has returned leaves its arguments and its return value behind
Returned(f, value) ==
    [NoFrame EXCEPT !.op = f.op, !.symbol = f.symbol,
                    !.maxKlines = f.maxKlines, !.ret = value]

\* a call that returns candles or signals leaves these behind as well
ReturnedWith(f, value, out) == [Returned(f, value) EXCEPT !.out = out]

\* GetKlineCache: an empty cache, nobody inside
Fresh ==
    /\ cache = EmptyMap
    /\ kcMu = FreeMu
    /\ mtkMu = [s \in Symbols |-> FreeMu]
    /\ pc = [p \in Procs |-> "idle"]
    /\ frame = [p \in Procs |-> NoFrame]
    /\ now = 0
    /\ initFetches = [s \in Symbols |-> 0]
    /\ installs = [s \in Symbols |-> 0]
    /\ initLimit = [s \in Symbols |-> 0]
    /\ prevResp = [s \in Symbols |-> <<>>]
    /\ held = [p \in Procs |-> ""]
    /\ NotWaiting

\* every caller calls
Init ==
    /\ Fresh
    /\ callsLeft = [p \in Procs |-> ConcCalls]
    /\ readsLeft = [p \in Procs |-> 0]
    /\ okLeft = ConcOk

\* caller 1 calls, one call after the other
InitSeq ==
    /\ Fresh
    /\ callsLeft = [p \in Procs |-> IF p = 1 THEN SeqCalls ELSE 0]
    /\ readsLeft = [p \in Procs |-> 0]
    /\ okLeft = SeqOk

\* caller 1 calls, one call after the other, and reads as well
InitRead ==
    /\ Fresh
    /\ callsLeft = [p \in Procs |-> IF p = 1 THEN SeqCalls ELSE 0]
    /\ readsLeft = [p \in Procs |-> IF p = 1 THEN SeqReads ELSE 0]
    /\ okLeft = ReadOk

\* caller 1 writes (InitSymbol, UpdateSymbol), one call after the other,
\* while caller 2 calls as in Init, and reads as well
InitMix ==
    /\ Fresh
    /\ callsLeft = [p \in Procs |-> IF p = 1 THEN SeqCalls ELSE ConcCalls]
    /\ readsLeft = [p \in Procs |-> IF p = 1 THEN 0 ELSE ConcCalls]
    /\ okLeft = ConcOk

\* both callers write or read: caller 1 one call after the other, caller 2
\* as in Init
InitShare ==
    /\ Fresh
    /\ callsLeft = [p \in Procs |-> IF p = 1 THEN ShareCalls ELSE ConcCalls]
    /\ readsLeft = [p \in Procs |-> ConcCalls]
    /\ okLeft = ConcOk

\* InitSymbol("BTCUSDT", updateLimit) has installed the record data, and
\* nobody is inside
Loaded(data) ==
    /\ cache = MapPut(EmptyMap, "BTCUSDT", data)
    /\ kcMu = FreeMu
    /\ mtkMu = [s \in Symbols |-> FreeMu]
    /\ pc = [p \in Procs |-> "idle"]
    /\ frame = [p \in Procs |-> NoFrame]
    /\ now = 0
    /\ initFetches = [s \in Symbols |-> IF s = "BTCUSDT" THEN Len(TimeFrames) ELSE 0]
    /\ installs = [s \in Symbols |-> IF s = "BTCUSDT" THEN 1 ELSE 0]
    /\ initLimit = [s \in Symbols |-> IF s = "BTCUSDT" THEN updateLimit ELSE 0]
    /\ prevResp = [s \in Symbols |-> <<>>]
    /\ held = [p \in Procs |-> ""]
    /\ NotWaiting

\* caller 1 runs one detector on a cache that holds candles for the rules
InitDetect ==
    /\ \E data \in DetectData : Loaded(data)
    /\ callsLeft = [p \in Procs |-> IF p = 1 THEN 1 ELSE 0]
    /\ readsLeft = [p \in Procs |-> IF p = 1 THEN 1 ELSE 0]
    /\ okLeft = 0

\* the market moves on by half a period; a call is short against a period,
\* so no call is inside its fetch loop when it does
Tick ==
    /\ now < MaxTicks
    /\ \A p \in Procs : pc[p] \notin {"init_fetch", "upd_fetch"}
    /\ now' = now + 1
    /\ UNCHANGED <<cache, kcMu, mtkMu, pc, frame, callsLeft, readsLeft, okLeft,
                   initFetches, installs, initLimit, prevResp, held,
                   waitVars>>

(* ----------------------------- InitSymbol ------------------------------ *)

\* (mutant) the existence check always misses
ExistsNever(c, symbol) == FALSE

\* _, exists := kc.cache[symbol]
Exists(c, symbol) == symbol \in DOMAIN c

\* (mutant) the store runs without looking at err
InitStoreOnError(data, tf, r) == MapPut(data, tf, r.klines)

\* one pass of InitSymbol's loop: an error skips the timeframe, otherwise
\* mtk.Data[tf] = klines
InitStore(data, tf, r) == IF r.err THEN data ELSE MapPut(data, tf, r.klines)

\* (mutant) the record is put into kc.cache while the loop fills it
InstalledInLoop(c, symbol, data) == MapPut(c, symbol, data)

\* the loop fills mtk, which kc.cache does not hold yet
CacheInLoop(c, symbol, data) == c

CallInitSymbol(p, symbol, maxKlines) ==
    /\ pc[p] = "idle"
    /\ callsLeft[p] > 0
    /\ callsLeft' = [callsLeft EXCEPT ![p] = @ - 1]
    /\ pc' = [pc EXCEPT ![p] = "init_lock"]
    /\ frame' = [frame EXCEPT ![p] = [NoFrame EXCEPT !.op = "InitSymbol",
                     !.symbol = symbol, !.maxKlines = maxKlines]]
    /\ UNCHANGED <<cache, kcMu, mtkMu, now, readsLeft, okLeft, initFetches,
                   installs, initLimit, prevResp, waitVars>>
    /\ held' = [held EXCEPT ![p] = ""]

\* kc.mu.Lock()
InitLock(p) ==
    /\ pc[p] = "init_lock"
    /\ CanLock(kcMu)
    /\ kcMu' = [kcMu EXCEPT !.w = p]
    /\ pc' = [pc EXCEPT ![p] = "init_check"]
    /\ UNCHANGED <<cache, mtkMu, frame, now, callsLeft, readsLeft, okLeft, initFetches,
                   installs, initLimit, prevResp, held, waitVars>>

\* the symbol has a record: return nil (the deferred Unlock runs)
InitSkip(p) ==
    /\ pc[p] = "init_check"
    /\ Exists(cache, frame[p].symbol)
    /\ kcMu' = [kcMu EXCEPT !.w = 0]
    /\ frame' = [frame EXCEPT ![p] = Returned(frame[p], "nil")]
    /\ pc' = [pc EXCEPT ![p] = "idle"]
    /\ UNCHANGED <<cache, mtkMu, now, callsLeft, readsLeft, okLeft, initFetches,
                   installs, initLimit, prevResp, held, waitVars>>

\* no record: mtk := &MultiTimeFrameKline{...}, and into the loop
InitBegin(p) ==
    /\ pc[p] = "init_check"
    /\ ~Exists(cache, frame[p].symbol)
    /\ frame' = [frame EXCEPT ![p].i = 1, ![p].mtk = EmptyMap]
    /\ pc' = [pc EXCEPT ![p] = "init_fetch"]
    /\ UNCHANGED <<cache, kcMu, mtkMu, now, callsLeft, readsLeft, okLeft, initFetches,
                   installs, initLimit, prevResp, held, waitVars>>

\* one pass of the loop: the provider call and the store
InitFetch(p) ==
    /\ pc[p] = "init_fetch"
    /\ LET f == frame[p]
           tf == TimeFrames[f.i]
       IN  \E r \in Answers(f.symbol, tf, f.maxKlines, now, okLeft) :
             /\ frame' = [frame EXCEPT ![p].mtk = InitStore(f.mtk, tf, r),
                                       ![p].resp = Append(f.resp, r),
                                       ![p].i = f.i + 1]
             /\ cache' = CacheInLoop(cache, f.symbol, InitStore(f.mtk, tf, r))
             /\ okLeft' = IF r.err THEN okLeft ELSE okLeft - 1
             /\ initFetches' = [initFetches EXCEPT ![f.symbol] = @ + 1]
             /\ pc' = [pc EXCEPT ![p] =
                          IF f.i = Len(TimeFrames) THEN "init_install"
                          ELSE "init_fetch"]
    /\ UNCHANGED <<kcMu, mtkMu, now, callsLeft, readsLeft, installs,
                   initLimit, prevResp, held, waitVars>>

\* kc.cache[symbol] = mtk; return nil (the deferred Unlock runs)
InitInstall(p) ==
    /\ pc[p] = "init_install"
    /\ LET f == frame[p]
       IN  /\ cache' = MapPut(cache, f.symbol, f.mtk)
           /\ installs' = [installs EXCEPT ![f.symbol] = @ + 1]
           /\ initLimit' = [initLimit EXCEPT ![f.symbol] = f.maxKlines]
    /\ kcMu' = [kcMu EXCEPT !.w = 0]
    /\ frame' = [frame EXCEPT ![p] = Returned(frame[p], "nil")]
    /\ pc' = [pc EXCEPT ![p] = "idle"]
    /\ UNCHANGED <<mtkMu, now, callsLeft, readsLeft, okLeft, initFetches,
                   prevResp, held, waitVars>>

(* ---------------------------- UpdateSymbol ----------------------------- *)

\* (mutant) no retention
TruncateOff(s) == s

\* (mutant) the retention keeps the oldest maxKeep candles
TruncateNewest(s) == IF Len(s) > maxKeep THEN SubSeq(s, 1, maxKeep) ELSE s

\* the retention: keep the latest maxKeep candles
Truncate(s) ==
    IF Len(s) > maxKeep THEN SubSeq(s, Len(s) - maxKeep + 1, Len(s)) ELSE s

\* (mutant) the merge appends without comparing open times
MergeAlwaysAppend(existingKlines, newKlines) ==
    IF Len(existingKlines) = 0
    THEN newKlines
    ELSE Truncate(existingKlines \o newKlines)

\* (mutant) the merge compares open times with >= instead of >
MergeAppendOnEqual(existingKlines, newKlines) ==
    IF Len(existingKlines) = 0
    THEN newKlines
    ELSE IF Last(newKlines).OpenTime >= Last(existingKlines).OpenTime
         THEN Truncate(existingKlines \o newKlines)
         ELSE Truncate([existingKlines EXCEPT
                           ![Len(existingKlines)] = Last(newKlines)])

\* (mutant) the retention runs after an append only
MergeRetainOnAppend(existingKlines, newKlines) ==
    IF Len(existingKlines) = 0
    THEN newKlines
    ELSE IF Last(newKlines).OpenTime > Last(existingKlines).OpenTime
         THEN Truncate(existingKlines \o newKlines)
         ELSE [existingKlines EXCEPT ![Len(existingKlines)] = Last(newKlines)]

\* the merge of fetched candles into a stored series
MergeKlines(existingKlines, newKlines) ==
    IF Len(existingKlines) = 0
    THEN newKlines
    ELSE LET lastExisting == Last(existingKlines)
             lastNew == Last(newKlines)
         IN  IF lastNew.OpenTime > lastExisting.OpenTime
             THEN Truncate(existingKlines \o newKlines)
             ELSE Truncate([existingKlines EXCEPT
                               ![Len(existingKlines)] = lastNew])

\* (mutant) an empty answer is stored like any other
UpdStoreClobber(data, tf, r) ==
    IF r.err THEN data
    ELSE IF Len(r.klines) = 0 THEN MapPut(data, tf, <<>>)
    ELSE MapPut(data, tf, MergeKlines(MapGet(data, tf), r.klines))

\* (mutant) the merge runs for the timeframes the record holds only
UpdStoreKnownOnly(data, tf, r) ==
    IF r.err THEN data
    ELSE IF Len(r.klines) = 0 THEN data
    ELSE IF tf \notin DOMAIN data THEN data
    ELSE MapPut(data, tf, MergeKlines(MapGet(data, tf), r.klines))

\* one pass of UpdateSymbol's loop: an error or an empty answer skips the
\* timeframe, otherwise the fetched candles are merged into mtk.Data[tf]
UpdStore(data, tf, r) ==
    IF r.err THEN data
    ELSE IF Len(r.klines) = 0 THEN data
    ELSE MapPut(data, tf, MergeKlines(MapGet(data, tf), r.klines))

\* (mutant) the missing symbol is reported as success
ErrNil(symbol) == "nil"

\* fmt.Errorf("symbol %s not initialized", symbol)
ErrNotInitialized(symbol) == "not initialized"

CallUpdateSymbol(p, symbol) ==
    /\ pc[p] = "idle"
    /\ callsLeft[p] > 0
    /\ callsLeft' = [callsLeft EXCEPT ![p] = @ - 1]
    /\ pc' = [pc EXCEPT ![p] = "upd_lock"]
    /\ frame' = [frame EXCEPT ![p] = [NoFrame EXCEPT !.op = "UpdateSymbol",
                     !.symbol = symbol]]
    /\ UNCHANGED <<cache, kcMu, mtkMu, now, readsLeft, okLeft, initFetches,
                   installs, initLimit, prevResp, waitVars>>
    /\ held' = [held EXCEPT ![p] = ""]

\* kc.mu.Lock()
UpdLock(p) ==
    /\ pc[p] = "upd_lock"
    /\ CanLock(kcMu)
    /\ kcMu' = [kcMu EXCEPT !.w = p]
    /\ pc' = [pc EXCEPT ![p] = "upd_check"]
    /\ UNCHANGED <<cache, mtkMu, frame, now, callsLeft, readsLeft, okLeft, initFetches,
                   installs, initLimit, prevResp, held, waitVars>>

\* (mutant) the error return leaves kc.mu locked
UpdNotInitLocked(p) ==
    /\ pc[p] = "upd_check"
    /\ ~Exists(cache, frame[p].symbol)
    /\ frame' = [frame EXCEPT ![p] = Returned(frame[p], "not initialized")]
    /\ pc' = [pc EXCEPT ![p] = "idle"]
    /\ UNCHANGED <<cache, kcMu, mtkMu, now, callsLeft, readsLeft, okLeft,
                   initFetches, installs, initLimit, prevResp, held,
                   waitVars>>

\* no record: return the error (the deferred Unlock runs)
UpdNotInit(p) ==
    /\ pc[p] = "upd_check"
    /\ ~Exists(cache, frame[p].symbol)
    /\ kcMu' = [kcMu EXCEPT !.w = 0]
    /\ frame' = [frame EXCEPT ![p] = Returned(frame[p], ErrNotInitialized(frame[p].symbol))]
    /\ pc' = [pc EXCEPT ![p] = "idle"]
    /\ UNCHANGED <<cache, mtkMu, now, callsLeft, readsLeft, okLeft, initFetches,
                   installs, initLimit, prevResp, held, waitVars>>

\* mtk.mu.Lock(), and into the loop
UpdBegin(p) ==
    /\ pc[p] = "upd_check"
    /\ Exists(cache, frame[p].symbol)
    /\ CanLock(mtkMu[frame[p].symbol])
    /\ mtkMu' = [mtkMu EXCEPT ![frame[p].symbol].w = p]
    /\ frame' = [frame EXCEPT ![p].i = 1,
                              ![p].before = cache[frame[p].symbol]]
    /\ pc' = [pc EXCEPT ![p] = "upd_fetch"]
    /\ UNCHANGED <<cache, kcMu, now, callsLeft, readsLeft, okLeft, initFetches,
                   installs, initLimit, prevResp, held, waitVars>>

\* The klines GetKlines returns are a slice of the stored array, not a copy
\* (lines 186 and 189), and GetLatestKline returns a pointer into it (line
\* 203).  The slice ends where the series ended when it was made; line 153
\* assigns to the last element of the series in place; append and the
\* retention assign to no element a slice made earlier holds.

\* caller q was handed klines that end in the last element of the series
Shares(q, symbol, tf) == held[q] = tf /\ frame[q].symbol = symbol

\* the pass assigns lastNew to the last element of the stored array
OverwritesLast(existingKlines, r) ==
    /\ ~r.err
    /\ Len(r.klines) > 0
    /\ Len(existingKlines) > 0
    /\ ~(Last(r.klines).OpenTime > Last(existingKlines).OpenTime)

\* the pass makes the series end in another element: it appends or adopts
Replaces(existingKlines, r) ==
    /\ ~r.err
    /\ Len(r.klines) > 0
    /\ ~OverwritesLast(existingKlines, r)

\* (mutant) GetKlines returns a copy of the candles
HeldAfterCopy(f, shares, existingKlines, r) == f

\* what the holder of klines that end in the last element of the series
\* finds in them after the pass
HeldAfter(f, shares, existingKlines, r) ==
    IF shares /\ OverwritesLast(existingKlines, r)
    THEN [f EXCEPT !.out = [@ EXCEPT ![Len(@)] = Last(r.klines)]]
    ELSE f

\* one pass of the loop: the provider call, which answers with the market
\* as of clock c, the merge and the retention
UpdPass(p, c) ==
    /\ pc[p] = "upd_fetch"
    /\ LET f == frame[p]
           tf == TimeFrames[f.i]
       IN  \E r \in Answers(f.symbol, tf, updateLimit, c, okLeft) :
             /\ cache' = [cache EXCEPT ![f.symbol] = UpdStore(@, tf, r)]
             /\ frame' = [q \in Procs |->
                              IF q = p
                              THEN [f EXCEPT !.resp = Append(f.resp, r),
                                             !.i = f.i + 1]
                              ELSE HeldAfter(frame[q], Shares(q, f.symbol, tf),
                                             MapGet(cache[f.symbol], tf), r)]
             /\ held' = [q \in Procs |->
                             IF /\ Shares(q, f.symbol, tf)
                                /\ Replaces(MapGet(cache[f.symbol], tf), r)
                             THEN "" ELSE held[q]]
             /\ okLeft' = IF r.err THEN okLeft ELSE okLeft - 1
             /\ pc' = [pc EXCEPT ![p] =
                          IF f.i = Len(TimeFrames) THEN "upd_ret"
                          ELSE "upd_fetch"]
    /\ UNCHANGED <<kcMu, mtkMu, now, callsLeft, readsLeft, initFetches, installs,
                   initLimit, prevResp, waitVars>>

\* the provider answers with the market as it is
UpdFetch(p) == UpdPass(p, now)

\* the provider answers late, or from a replica that lags: with the market
\* as it was at an earlier clock
UpdFetchStale(p) == \E c \in 0..(now - 1) : UpdPass(p, c)

\* return nil (the deferred Unlocks run)
UpdReturn(p) ==
    /\ pc[p] = "upd_ret"
    /\ mtkMu' = [mtkMu EXCEPT ![frame[p].symbol].w = 0]
    /\ kcMu' = [kcMu EXCEPT !.w = 0]
    /\ prevResp' = [prevResp EXCEPT ![frame[p].symbol] = frame[p].resp]
    /\ frame' = [frame EXCEPT ![p] = Returned(frame[p], "nil")]
    /\ pc' = [pc EXCEPT ![p] = "idle"]
    /\ UNCHANGED <<cache, now, callsLeft, readsLeft, okLeft, initFetches, installs,
                   initLimit, held, waitVars>>

(* ------------------------- the GetKlines family ------------------------ *)

\* (mutant) the oldest limit candles instead of the latest
GetSliceHead(klines, limit) ==
    IF Len(klines) <= limit THEN klines ELSE SubSeq(klines, 1, limit)

\* the latest limit candles: klines when len(klines) <= limit, otherwise
\* klines[len(klines)-limit:]
GetSlice(klines, limit) ==
    IF Len(klines) <= limit
    THEN klines
    ELSE SubSeq(klines, Len(klines) - limit + 1, Len(klines))

\* (mutant) every timeframe is found
HasSeriesAlways(data, timeFrame) == TRUE

\* klines, exists := mtk.Data[timeFrame]
HasSeries(data, timeFrame) == timeFrame \in DOMAIN data

\* fmt.Errorf("timeframe %s not found for %s", timeFrame, symbol)
ErrTimeframeNotFound(timeFrame, symbol) == "timeframe not found"

\* fmt.Errorf("no klines available")
ErrNoKlines == "no klines available"

\* what a call of the family returns: (klines, err)
Result(klines, err) == [err |-> err, klines |-> klines]

\* what stands for the error of a call that does not return: the runtime
\* panics with "slice bounds out of range", the deferred RUnlocks run, and
\* the panic goes up through the callers
PanicOutOfRange == "panic: slice bounds out of range"

\* klines[len(klines)-limit:] is out of range when its low bound is beyond
\* len(klines): for every negative limit
SliceOutOfRange(klines, limit) ==
    Len(klines) > limit /\ Len(klines) - limit > Len(klines)

\* (mutant) GetKlines takes a limit below 0 for 0
ReadKlinesClamped(data, symbol, timeFrame, limit) ==
    IF ~HasSeries(data, timeFrame)
    THEN Result(<<>>, ErrTimeframeNotFound(timeFrame, symbol))
    ELSE Result(GetSlice(MapGet(data, timeFrame), Max(limit, 0)), "nil")

\* GetKlines once both read locks are held: the lookup and the slice
ReadKlines(data, symbol, timeFrame, limit) ==
    IF ~HasSeries(data, timeFrame)
    THEN Result(<<>>, ErrTimeframeNotFound(timeFrame, symbol))
    ELSE IF SliceOutOfRange(MapGet(data, timeFrame), limit)
    THEN Result(<<>>, PanicOutOfRange)
    ELSE Result(GetSlice(MapGet(data, timeFrame), limit), "nil")

\* GetLatestKline, from what its GetKlines(symbol, timeFrame, 1) returned
GetLatestKline(r) ==
    IF r.err # "nil" THEN Result(<<>>, r.err)
    ELSE IF Len(r.klines) = 0 THEN Result(<<>>, ErrNoKlines)
    ELSE Result(<<r.klines[1]>>, "nil")

\* GetLatestTwoKlines returns what its GetKlines(symbol, timeFrame, 2) returned
GetLatestTwoKlines(r) == r

\* (mutant) the read stores the slice it returns
DataTrimmedByRead(data, timeFrame, limit) ==
    IF timeFrame \in DOMAIN data
    THEN [data EXCEPT ![timeFrame] = GetSlice(@, limit)]
    ELSE data

\* GetKlines assigns to nothing in mtk.Data
DataAfterRead(data, timeFrame, limit) == data

\* one GetKlines a call is going to make: for which function, on which
\* timeframe, with which limit
Read(kind, timeFrame, limit) ==
    [limit |-> limit, timeFrame |-> timeFrame, kind |-> kind]

CallRead(p, op, symbol, todo) ==
    /\ pc[p] = "idle"
    /\ callsLeft[p] > 0
    /\ callsLeft' = [callsLeft EXCEPT ![p] = @ - 1]
    /\ readsLeft[p] > 0
    /\ readsLeft' = [readsLeft EXCEPT ![p] = @ - 1]
    /\ pc' = [pc EXCEPT ![p] = "get_lock"]
    /\ frame' = [frame EXCEPT ![p] = [NoFrame EXCEPT !.op = op,
                     !.symbol = symbol, !.todo = todo]]
    /\ UNCHANGED <<cache, kcMu, mtkMu, now, okLeft, initFetches, installs,
                   initLimit, prevResp, waitVars>>
    /\ held' = [held EXCEPT ![p] = ""]

CallGetKlines(p, symbol, timeFrame, limit) ==
    CallRead(p, "GetKlines", symbol, <<Read("GetKlines", timeFrame, limit)>>)

CallGetLatestKline(p, symbol, timeFrame) ==
    CallRead(p, "GetLatestKline", symbol,
             <<Read("GetLatestKline", timeFrame, 1)>>)

CallGetLatestTwoKlines(p, symbol, timeFrame) ==
    CallRead(p, "GetLatestTwoKlines", symbol,
             <<Read("GetLatestTwoKlines", timeFrame, 2)>>)

\* kc.mu.RLock()
GetLock(p) ==
    /\ pc[p] = "get_lock"
    /\ CanRLock(kcMu)
    /\ kcMu' = [kcMu EXCEPT !.r = @ \cup {p}]
    /\ pc' = [pc EXCEPT ![p] = "get_check"]
    /\ UNCHANGED <<cache, mtkMu, frame, now, callsLeft, readsLeft, okLeft, initFetches,
                   installs, initLimit, prevResp, held, waitVars>>

(* ------------------------------ detectors ------------------------------ *)

Abs(x) == IF x < 0 THEN -x ELSE x

\* a TradingSignal; StopLoss is in thousandths of the price unit
Signal(symbol, timeFrame, signalType, direction, price, stopLoss, confidence) ==
    [Symbol |-> symbol, TimeFrame |-> timeFrame, SignalType |-> signalType,
     Direction |-> direction, Price |-> price, StopLoss |-> stopLoss,
     Confidence |-> confidence]

\* (mutant) calculatePinBarConfidence with the shadow ratio compared by >=
calculatePinBarConfidenceInclusive(shadowLength, body, oppositeShadow, totalRange) ==
    LET shadowBonus == IF 10 * shadowLength >= 7 * totalRange THEN 25
                       ELSE IF 10 * shadowLength >= 6 * totalRange THEN 20
                       ELSE IF 10 * shadowLength >= 5 * totalRange THEN 15
                       ELSE 0
        bodyBonus == IF 100 * body < 15 * totalRange THEN 10
                     ELSE IF 100 * body < 25 * totalRange THEN 5
                     ELSE 0
        oppositeBonus == IF 2 * oppositeShadow < body THEN 5 ELSE 0
    IN  Min(60 + shadowBonus + bodyBonus + oppositeBonus, 100)

\* calculatePinBarConfidence; the ratios are compared by cross-multiplying
calculatePinBarConfidence(shadowLength, body, oppositeShadow, totalRange) ==
    LET shadowBonus == IF 10 * shadowLength > 7 * totalRange THEN 25
                       ELSE IF 10 * shadowLength > 6 * totalRange THEN 20
                       ELSE IF 10 * shadowLength > 5 * totalRange THEN 15
                       ELSE 0
        bodyBonus == IF 100 * body < 15 * totalRange THEN 10
                     ELSE IF 100 * body < 25 * totalRange THEN 5
                     ELSE 0
        oppositeBonus == IF 2 * oppositeShadow < body THEN 5 ELSE 0
    IN  Min(60 + shadowBonus + bodyBonus + oppositeBonus, 100)

\* (mutant) the pin-bar rule without the condition on the opposite shadow
PinBarRuleBothSides(symbol, timeFrame, kline) ==
    LET body == Abs(kline.Close - kline.Open)
        upperShadow == kline.High - Max(kline.Open, kline.Close)
        lowerShadow == Min(kline.Open, kline.Close) - kline.Low
        totalRange == kline.High - kline.Low
        bullish == IF /\ 2 * lowerShadow > 3 * body
                      /\ 10 * body < 3 * totalRange
                   THEN <<Signal(symbol, timeFrame, "bullish_pin_bar", "long",
                                 kline.Close, kline.Low * 997,
                                 calculatePinBarConfidence(lowerShadow, body,
                                     upperShadow, totalRange))>>
                   ELSE <<>>
        bearish == IF /\ 2 * upperShadow > 3 * body
                      /\ 10 * body < 3 * totalRange
                   THEN <<Signal(symbol, timeFrame, "bearish_pin_bar", "short",
                                 kline.Close, kline.High * 1003,
                                 calculatePinBarConfidence(upperShadow, body,
                                     lowerShadow, totalRange))>>
                   ELSE <<>>
    IN  IF totalRange = 0 \/ body = 0 THEN <<>> ELSE bullish \o bearish

\* (mutant) the pin-bar rule with the opposite shadow compared by <=
PinBarRuleInclusive(symbol, timeFrame, kline) ==
    LET body == Abs(kline.Close - kline.Open)
        upperShadow == kline.High - Max(kline.Open, kline.Close)
        lowerShadow == Min(kline.Open, kline.Close) - kline.Low
        totalRange == kline.High - kline.Low
        bullish == IF /\ 2 * lowerShadow > 3 * body
                      /\ 10 * body < 3 * totalRange
                      /\ upperShadow <= body
                   THEN <<Signal(symbol, timeFrame, "bullish_pin_bar", "long",
                                 kline.Close, kline.Low * 997,
                                 calculatePinBarConfidence(lowerShadow, body,
                                     upperShadow, totalRange))>>
                   ELSE <<>>
        bearish == IF /\ 2 * upperShadow > 3 * body
                      /\ 10 * body < 3 * totalRange
                      /\ lowerShadow <= body
                   THEN <<Signal(symbol, timeFrame, "bearish_pin_bar", "short",
                                 kline.Close, kline.High * 1003,
                                 calculatePinBarConfidence(upperShadow, body,
                                     lowerShadow, totalRange))>>
                   ELSE <<>>
    IN  IF totalRange = 0 \/ body = 0 THEN <<>> ELSE bullish \o bearish

\* the pin-bar rule on the latest candle
PinBarRule(symbol, timeFrame, kline) ==
    LET body == Abs(kline.Close - kline.Open)
        upperShadow == kline.High - Max(kline.Open, kline.Close)
        lowerShadow == Min(kline.Open, kline.Close) - kline.Low
        totalRange == kline.High - kline.Low
        bullish == IF /\ 2 * lowerShadow > 3 * body
                      /\ 10 * body < 3 * totalRange
                      /\ upperShadow < body
                   THEN <<Signal(symbol, timeFrame, "bullish_pin_bar", "long",
                                 kline.Close, kline.Low * 997,
                                 calculatePinBarConfidence(lowerShadow, body,
                                     upperShadow, totalRange))>>
                   ELSE <<>>
        bearish == IF /\ 2 * upperShadow > 3 * body
                      /\ 10 * body < 3 * totalRange
                      /\ lowerShadow < body
                   THEN <<Signal(symbol, timeFrame, "bearish_pin_bar", "short",
                                 kline.Close, kline.High * 1003,
                                 calculatePinBarConfidence(upperShadow, body,
                                     lowerShadow, totalRange))>>
                   ELSE <<>>
    IN  IF totalRange = 0 \/ body = 0 THEN <<>> ELSE bullish \o bearish

\* DetectPinBar, from what its GetLatestKline returned
DetectPinBar(symbol, timeFrame, r) ==
    IF r.err # "nil" THEN <<>> ELSE PinBarRule(symbol, timeFrame, r.klines[1])

\* calculateStopLoss
calculateStopLoss(kline, direction) ==
    IF direction = "long" THEN kline.Low * 997 ELSE kline.High * 1003

\* (mutant) the volume-spike rule with a direction of its own for a candle
\* that closes at its open
VolumeSpikeRuleFlat(symbol, timeFrame, prevKline, currentKline) ==
    IF prevKline.Volume = 0 THEN <<>>
    ELSE IF 10 * currentKline.Volume >= 15 * prevKline.Volume
    THEN LET direction == IF currentKline.Close < currentKline.Open
                          THEN "short"
                          ELSE IF currentKline.Close > currentKline.Open
                          THEN "long" ELSE "flat"
             confidence ==
                 IF 10 * currentKline.Volume >= 30 * prevKline.Volume THEN 95
                 ELSE IF 10 * currentKline.Volume >= 25 * prevKline.Volume THEN 90
                 ELSE IF 10 * currentKline.Volume >= 20 * prevKline.Volume THEN 85
                 ELSE IF 10 * currentKline.Volume >= 18 * prevKline.Volume THEN 80
                 ELSE 70
         IN  <<Signal(symbol, timeFrame, "volume_spike", direction,
                      currentKline.Close,
                      calculateStopLoss(currentKline, direction), confidence)>>
    ELSE <<>>

\* the volume-spike rule on the latest two candles
VolumeSpikeRule(symbol, timeFrame, prevKline, currentKline) ==
    IF prevKline.Volume = 0 THEN <<>>
    ELSE IF 10 * currentKline.Volume >= 15 * prevKline.Volume
    THEN LET direction == IF currentKline.Close < currentKline.Open
                          THEN "short" ELSE "long"
             confidence ==
                 IF 10 * currentKline.Volume >= 30 * prevKline.Volume THEN 95
                 ELSE IF 10 * currentKline.Volume >= 25 * prevKline.Volume THEN 90
                 ELSE IF 10 * currentKline.Volume >= 20 * prevKline.Volume THEN 85
                 ELSE IF 10 * currentKline.Volume >= 18 * prevKline.Volume THEN 80
                 ELSE 70
         IN  <<Signal(symbol, timeFrame, "volume_spike", direction,
                      currentKline.Close,
                      calculateStopLoss(currentKline, direction), confidence)>>
    ELSE <<>>

\* (mutant) the length check lets a single candle through, and klines[1]
\* is out of range: the panic stands in the list as a signal of its own
DetectVolumeSpikeLoose(symbol, timeFrame, r) ==
    IF r.err # "nil" \/ Len(r.klines) < 1 THEN <<>>
    ELSE IF Len(r.klines) < 2 THEN <<[SignalType |-> "panic"]>>
    ELSE VolumeSpikeRule(symbol, timeFrame, r.klines[1], r.klines[2])

\* DetectVolumeSpike, from what its GetLatestTwoKlines returned
DetectVolumeSpike(symbol, timeFrame, r) ==
    IF r.err # "nil" \/ Len(r.klines) < 2 THEN <<>>
    ELSE VolumeSpikeRule(symbol, timeFrame, r.klines[1], r.klines[2])

\* (mutant) the engulfing rule with the confidence of 90 from 1.5 times the
\* previous body on
EngulfingRuleInclusive(symbol, timeFrame, prevKline, currentKline) ==
    LET prevBody == Abs(prevKline.Close - prevKline.Open)
        currentBody == Abs(currentKline.Close - currentKline.Open)
        confidence == IF 2 * currentBody >= 3 * prevBody THEN 90 ELSE 80
        bullish == IF /\ prevKline.Close < prevKline.Open
                      /\ currentKline.Close > currentKline.Open
                      /\ currentKline.Open < prevKline.Close
                      /\ currentKline.Close > prevKline.Open
                      /\ currentBody > prevBody
                   THEN <<Signal(symbol, timeFrame, "engulfing", "long",
                                 currentKline.Close, currentKline.Low * 995,
                                 confidence)>>
                   ELSE <<>>
        bearish == IF /\ prevKline.Close > prevKline.Open
                      /\ currentKline.Close < currentKline.Open
                      /\ currentKline.Open > prevKline.Close
                      /\ currentKline.Close < prevKline.Open
                      /\ currentBody > prevBody
                   THEN <<Signal(symbol, timeFrame, "engulfing", "short",
                                 currentKline.Close, currentKline.High * 1005,
                                 confidence)>>
                   ELSE <<>>
    IN  bullish \o bearish

\* the engulfing rule on the latest two candles
EngulfingRule(symbol, timeFrame, prevKline, currentKline) ==
    LET prevBody == Abs(prevKline.Close - prevKline.Open)
        currentBody == Abs(currentKline.Close - currentKline.Open)
        confidence == IF 2 * currentBody > 3 * prevBody THEN 90 ELSE 80
        bullish == IF /\ prevKline.Close < prevKline.Open
                      /\ currentKline.Close > currentKline.Open
                      /\ currentKline.Open < prevKline.Close
                      /\ currentKline.Close > prevKline.Open
                      /\ currentBody > prevBody
                   THEN <<Signal(symbol, timeFrame, "engulfing", "long",
                                 currentKline.Close, currentKline.Low * 995,
                                 confidence)>>
                   ELSE <<>>
        bearish == IF /\ prevKline.Close > prevKline.Open
                      /\ currentKline.Close < currentKline.Open
                      /\ currentKline.Open > prevKline.Close
                      /\ currentKline.Close < prevKline.Open
                      /\ currentBody > prevBody
                   THEN <<Signal(symbol, timeFrame, "engulfing", "short",
                                 currentKline.Close, currentKline.High * 1005,
                                 confidence)>>
                   ELSE <<>>
    IN  bullish \o bearish

\* DetectEngulfing, from what its GetLatestTwoKlines returned
DetectEngulfing(symbol, timeFrame, r) ==
    IF r.err # "nil" \/ Len(r.klines) < 2 THEN <<>>
    ELSE EngulfingRule(symbol, timeFrame, r.klines[1], r.klines[2])

\* the three rules, in the order DetectAllSignals runs them
Rules == <<"DetectPinBar", "DetectVolumeSpike", "DetectEngulfing">>

\* the GetKlines a rule makes: DetectPinBar through GetLatestKline, the other
\* two through GetLatestTwoKlines
RuleRead(rule, timeFrame) ==
    Read(rule, timeFrame, IF rule = "DetectPinBar" THEN 1 ELSE 2)

CallDetectPinBar(p, symbol, timeFrame) ==
    CallRead(p, "DetectPinBar", symbol, <<RuleRead("DetectPinBar", timeFrame)>>)

CallDetectVolumeSpike(p, symbol, timeFrame) ==
    CallRead(p, "DetectVolumeSpike", symbol,
             <<RuleRead("DetectVolumeSpike", timeFrame)>>)

CallDetectEngulfing(p, symbol, timeFrame) ==
    CallRead(p, "DetectEngulfing", symbol,
             <<RuleRead("DetectEngulfing", timeFrame)>>)

\* (mutant) DetectAllSignals runs each rule in turn on every timeframe
CallDetectAllSignalsRuleMajor(p, symbol, timeFrames) ==
    CallRead(p, "DetectAllSignals", symbol,
             [j \in 1..(Len(Rules) * Len(timeFrames)) |->
                 RuleRead(Rules[((j - 1) \div Len(timeFrames)) + 1],
                          timeFrames[((j - 1) % Len(timeFrames)) + 1])])

\* DetectAllSignals: for each timeframe in turn, the three rules in turn
CallDetectAllSignals(p, symbol, timeFrames) ==
    CallRead(p, "DetectAllSignals", symbol,
             [j \in 1..(Len(Rules) * Len(timeFrames)) |->
                 RuleRead(Rules[((j - 1) % Len(Rules)) + 1],
                          timeFrames[((j - 1) \div Len(Rules)) + 1])])

\* what the function that made the GetKlines rd makes of its result r: the
\* candles and the error it returns, or the signals it returns
Outcome(symbol, rd, r) ==
    CASE rd.kind = "GetKlines" -> r
      [] rd.kind = "GetLatestKline" -> GetLatestKline(r)
      [] rd.kind = "GetLatestTwoKlines" -> GetLatestTwoKlines(r)
      [] rd.kind = "DetectPinBar" ->
             Result(DetectPinBar(symbol, rd.timeFrame, GetLatestKline(r)),
                    "signals")
      [] rd.kind = "DetectVolumeSpike" ->
             Result(DetectVolumeSpike(symbol, rd.timeFrame,
                                      GetLatestTwoKlines(r)), "signals")
      [] OTHER ->
             Result(DetectEngulfing(symbol, rd.timeFrame,
                                    GetLatestTwoKlines(r)), "signals")

\* the frame once the GetKlines at the head of f.todo has returned r: the
\* call returns, or (DetectAllSignals) goes on to its next rule
AfterGet(f, r) ==
    LET v == Outcome(f.symbol, Head(f.todo), r)
    IN  IF Len(f.todo) > 1
        THEN [f EXCEPT !.todo = Tail(@), !.out = @ \o v.klines]
        ELSE ReturnedWith(f, v.err, f.out \o v.klines)

AfterGetPc(f) == IF Len(f.todo) > 1 THEN "get_lock" ELSE "idle"

\* no record: GetKlines returns the error (the deferred RUnlock runs)
GetNotInit(p) ==
    /\ pc[p] = "get_check"
    /\ ~Exists(cache, frame[p].symbol)
    /\ kcMu' = [kcMu EXCEPT !.r = @ \ {p}]
    /\ frame' = [frame EXCEPT ![p] =
                    AfterGet(@, Result(<<>>, ErrNotInitialized(@.symbol)))]
    /\ pc' = [pc EXCEPT ![p] = AfterGetPc(frame[p])]
    /\ UNCHANGED <<cache, mtkMu, now, callsLeft, readsLeft, okLeft, initFetches,
                   installs, initLimit, prevResp, held, waitVars>>

\* mtk.mu.RLock()
GetBegin(p) ==
    /\ pc[p] = "get_check"
    /\ Exists(cache, frame[p].symbol)
    /\ CanRLock(mtkMu[frame[p].symbol])
    /\ mtkMu' = [mtkMu EXCEPT ![frame[p].symbol].r = @ \cup {p}]
    /\ pc' = [pc EXCEPT ![p] = "get_read"]
    /\ UNCHANGED <<cache, kcMu, frame, now, callsLeft, readsLeft, okLeft, initFetches,
                   installs, initLimit, prevResp, held, waitVars>>

\* the series in whose last element the klines handed to the caller end:
\* GetKlines, GetLatestKline and GetLatestTwoKlines hand out the slice r, or
\* a pointer to its element (line 203); the detectors hand out signals
HeldBy(rd, r) ==
    IF /\ rd.kind \in {"GetKlines", "GetLatestKline", "GetLatestTwoKlines"}
       /\ r.err = "nil"
       /\ Len(r.klines) > 0
    THEN rd.timeFrame
    ELSE ""

\* the lookup of the timeframe, the slice and the return (the deferred
\* RUnlocks run)
GetRead(p) ==
    /\ pc[p] = "get_read"
    /\ LET f == frame[p]
           rd == Head(f.todo)
       IN  /\ cache' = [cache EXCEPT ![f.symbol] =
                           DataAfterRead(@, rd.timeFrame, rd.limit)]
           /\ frame' = [frame EXCEPT ![p] =
                           AfterGet(f, ReadKlines(cache[f.symbol], f.symbol,
                                                  rd.timeFrame, rd.limit))]
           /\ pc' = [pc EXCEPT ![p] = AfterGetPc(f)]
           /\ held' = [held EXCEPT ![p] =
                          HeldBy(rd, ReadKlines(cache[f.symbol], f.symbol,
                                                rd.timeFrame, rd.limit))]
           /\ mtkMu' = [mtkMu EXCEPT ![f.symbol].r = @ \ {p}]
    /\ kcMu' = [kcMu EXCEPT !.r = @ \ {p}]
    /\ UNCHANGED <<now, callsLeft, readsLeft, okLeft, initFetches, installs, initLimit,
                   prevResp, waitVars>>

(* ------------------------- callers that wait --------------------------- *)

\* The callers of a run in which every call is to return.  A Lock call that
\* cannot return at once waits, and "a blocked Lock call excludes new readers
\* from acquiring the lock" (sync.RWMutex): the Lock of kc.mu is in two
\* steps, the call and the return, and RLock lets nobody in while a Lock
\* call waits.  The Lock of mtk.mu never waits, because its caller holds
\* kc.mu and every reader of mtk.mu would hold kc.mu too.

\* the record InitSymbol("BTCUSDT", updateLimit) installed at clock 0: the
\* served timeframes, with the latest updateLimit candles each
LoadedData ==
    [tf \in Served |-> Latest(0, updateLimit)]

\* both callers call, on a cache that holds one symbol
InitLive ==
    /\ Loaded(LoadedData)
    /\ callsLeft = [p \in Procs |-> ConcCalls]
    /\ readsLeft = [p \in Procs |-> ConcCalls]
    /\ okLeft = ConcOk

\* the callers whose kc.mu.Lock() has been called and has not returned
LockWaiters == {p \in Procs : pc[p] \in {"init_wait", "upd_wait"}}

\* kc.mu.Lock() is called
LockCall(p, at, wait) ==
    /\ pc[p] = at
    /\ pc' = [pc EXCEPT ![p] = wait]
    /\ UNCHANGED <<cache, kcMu, mtkMu, frame, now, callsLeft, readsLeft, okLeft,
                   initFetches, installs, initLimit, prevResp, held,
                   waitVars>>

\* kc.mu.Lock() returns
LockReturn(p, wait, next) ==
    /\ pc[p] = wait
    /\ CanLock(kcMu)
    /\ kcMu' = [kcMu EXCEPT !.w = p]
    /\ pc' = [pc EXCEPT ![p] = next]
    /\ UNCHANGED <<cache, mtkMu, frame, now, callsLeft, readsLeft, okLeft,
                   initFetches, installs, initLimit, prevResp, held,
                   waitVars>>

InitLockCall(p) == LockCall(p, "init_lock", "init_wait")

InitLockReturn(p) == LockReturn(p, "init_wait", "init_check")

UpdLockCall(p) == LockCall(p, "upd_lock", "upd_wait")

UpdLockReturn(p) == LockReturn(p, "upd_wait", "upd_check")

\* kc.mu.RLock(), which a waiting Lock call keeps out
GetLockBehindWriters(p) ==
    /\ LockWaiters = {}
    /\ GetLock(p)

\* a step of a call that caller p has started
Running(p) ==
    \/ InitLockCall(p)
    \/ InitLockReturn(p)
    \/ InitSkip(p)
    \/ InitBegin(p)
    \/ InitFetch(p)
    \/ InitInstall(p)
    \/ UpdLockCall(p)
    \/ UpdLockReturn(p)
    \/ UpdNotInit(p)
    \/ UpdBegin(p)
    \/ UpdFetch(p)
    \/ UpdReturn(p)
    \/ GetLockBehindWriters(p)
    \/ GetNotInit(p)
    \/ GetBegin(p)
    \/ GetRead(p)

(* --------------------------- GetKlines, any limit ---------------------- *)

\* the limits of every sign
AnyLimits == (-LimitSpan)..LimitSpan

\* the record of a symbol with a series of two candles and an empty series
LimitsData ==
    MapPut(MapPut(EmptyMap, "5m", Latest(0, updateLimit)), "15m", <<>>)

\* both callers call GetKlines, on a cache that holds one symbol
InitLimits ==
    /\ Loaded(LimitsData)
    /\ callsLeft = [p \in Procs |-> ConcCalls]
    /\ readsLeft = [p \in Procs |-> ConcCalls]
    /\ okLeft = 0

(* ------------------- FilterStrongSignals, CombineSignals ---------------- *)

\* (mutant) a signal is strong from confidence 81 on
IsStrongAbove(signal) == signal.Confidence > 80

\* signal.Confidence >= 80
IsStrong(signal) == signal.Confidence >= 80

\* FilterStrongSignals: the loop appends the strong signals one by one
RECURSIVE FilterStrongSignals(_)
FilterStrongSignals(signals) ==
    IF signals = <<>> THEN <<>>
    ELSE IF IsStrong(Head(signals))
    THEN <<Head(signals)>> \o FilterStrongSignals(Tail(signals))
    ELSE FilterStrongSignals(Tail(signals))

\* (mutant) the key leaves the direction out
SignalKeyNoDirection(signal) == signal.Symbol \o "_" \o signal.TimeFrame

\* fmt.Sprintf("%s_%s_%s", signal.Symbol, signal.TimeFrame, signal.Direction)
SignalKey(signal) ==
    signal.Symbol \o "_" \o signal.TimeFrame \o "_" \o signal.Direction

\* the loop of CombineSignals from the map combined on:
\* combined[key] = append(combined[key], signal)
RECURSIVE CombineInto(_, _)
CombineInto(combined, signals) ==
    IF signals = <<>> THEN combined
    ELSE CombineInto(MapPut(combined, SignalKey(Head(signals)),
                            Append(MapGet(combined, SignalKey(Head(signals))),
                                   Head(signals))),
                     Tail(signals))

CombineSignals(signals) == CombineInto(EmptyMap, signals)

\* the signals a caller may hold: markets of the exchange, timeframes of the
\* cache, both directions, confidences on both sides of 80
SignalSet ==
    {Signal(symbol, tf, "volume_spike", direction, PriceBase, PriceBase * 997,
            confidence) :
        symbol \in {"SOL_USDC", "SOL_USDC_PERP"}, tf \in ReadFrames,
        direction \in {"long", "short"}, confidence \in {79, 80}}

\* the lists of at most n signals
RECURSIVE SignalLists(_)
SignalLists(n) ==
    IF n = 0 THEN {<<>>}
    ELSE SignalLists(n - 1) \cup
         {Append(l, s) : l \in {x \in SignalLists(n - 1) : Len(x) = n - 1},
                         s \in SignalSet}

\* caller 1 holds a list of signals and makes two calls with it
InitSignals ==
    /\ cache = EmptyMap
    /\ kcMu = FreeMu
    /\ mtkMu = [s \in Symbols |-> FreeMu]
    /\ pc = [p \in Procs |-> "idle"]
    /\ now = 0
    /\ initFetches = [s \in Symbols |-> 0]
    /\ installs = [s \in Symbols |-> 0]
    /\ initLimit = [s \in Symbols |-> 0]
    /\ prevResp = [s \in Symbols |-> <<>>]
    /\ held = [p \in Procs |-> ""]
    /\ NotWaiting
    /\ callsLeft = [p \in Procs |-> IF p = 1 THEN 2 ELSE 0]
    /\ readsLeft = [p \in Procs |-> 0]
    /\ okLeft = 0
    /\ \E l \in SignalLists(MaxSignals) :
           frame = [p \in Procs |-> IF p = 1 THEN [NoFrame EXCEPT !.out = l]
                                    ELSE NoFrame]

\* a call of a function of signals with the list the caller holds; the
\* caller holds what the call returned
CallPure(p, op, value) ==
    /\ pc[p] = "idle"
    /\ callsLeft[p] > 0
    /\ frame[p].op \in {"none", "FilterStrongSignals"}
    /\ callsLeft' = [callsLeft EXCEPT ![p] = @ - 1]
    /\ frame' = [frame EXCEPT ![p] = [NoFrame EXCEPT !.op = op, !.out = value,
                                                     !.ret = "signals"]]
    /\ UNCHANGED <<cache, kcMu, mtkMu, pc, now, readsLeft, okLeft, initFetches,
                   installs, initLimit, prevResp, waitVars>>
    /\ held' = [held EXCEPT ![p] = ""]

CallFilterStrongSignals(p) ==
    CallPure(p, "FilterStrongSignals", FilterStrongSignals(frame[p].out))

CallCombineSignals(p) ==
    CallPure(p, "CombineSignals", CombineSignals(frame[p].out))

(* -------------------------- waitForOrderFilled ------------------------- *)

MinInt == -(2 ^ (IntBits - 1))

MaxInt == 2 ^ (IntBits - 1) - 1

\* an int result, wrapped around as Go's arithmetic does
WrapInt(x) == ((x - MinInt) % (2 ^ IntBits)) + MinInt

\* the maxWaitSeconds the callers pass: none, small ones, and the largest
\* ones, around the point where twice the value no longer fits an int
WaitSeconds ==
    {-1, 0, 1, 2, 3, MaxInt \div checksPerSecond,
     MaxInt \div checksPerSecond + 1, MaxInt}

\* the order statuses of the exchange; "Triggered" is one the switch does
\* not name
Statuses ==
    {"Filled", "PartiallyFilled", "New", "Cancelled", "Expired", "Rejected",
     "Triggered"}

\* getOrderStatus returned an error
QueryFailed == "query failed"

\* what getOrderStatus may return
PollResults == Statuses \cup {QueryFailed}

\* fmt.Errorf("订单未成交，状态: %s", status)
ErrNotFilled(st) == "order not filled, status: " \o st

\* fmt.Errorf("等待订单成交超时（%d秒）", maxWaitSeconds)
ErrTimeout == "timed out waiting for the order to fill"

\* (mutant) a partly filled order counts as filled
PollOutcomePartial(r) ==
    IF r = QueryFailed THEN "none"
    ELSE CASE r \in {"Filled", "PartiallyFilled"} -> "nil"
           [] r = "New" -> "none"
           [] r \in {"Cancelled", "Expired", "Rejected"} -> ErrNotFilled(r)
           [] OTHER -> "none"

\* one pass of the loop on what getOrderStatus returned: the error the
\* function returns, "nil" when it returns success, "none" when it goes on
PollOutcome(r) ==
    IF r = QueryFailed THEN "none"
    ELSE CASE r = "Filled" -> "nil"
           [] r = "PartiallyFilled" -> "none"
           [] r = "New" -> "none"
           [] r \in {"Cancelled", "Expired", "Rejected"} -> ErrNotFilled(r)
           [] OTHER -> "none"

\* waitForOrderFilled is called with some maxWaitSeconds
InitWait ==
    /\ cache = EmptyMap
    /\ kcMu = FreeMu
    /\ mtkMu = [s \in Symbols |-> FreeMu]
    /\ pc = [p \in Procs |-> "idle"]
    /\ frame = [p \in Procs |-> NoFrame]
    /\ now = 0
    /\ callsLeft = [p \in Procs |-> 0]
    /\ readsLeft = [p \in Procs |-> 0]
    /\ okLeft = 0
    /\ initFetches = [s \in Symbols |-> 0]
    /\ installs = [s \in Symbols |-> 0]
    /\ initLimit = [s \in Symbols |-> 0]
    /\ prevResp = [s \in Symbols |-> <<>>]
    /\ held = [p \in Procs |-> ""]
    /\ waitPc = "called"
    /\ maxWaitSeconds \in WaitSeconds
    /\ maxAttempts = 0
    /\ attempt = 0
    /\ status = ""
    /\ polls = 0
    /\ waitRet = "none"

\* the default, maxAttempts := maxWaitSeconds * 2, and attempt := 0
WaitBegin ==
    /\ waitPc = "called"
    /\ LET seconds == IF maxWaitSeconds <= 0 THEN defaultWaitSeconds
                      ELSE maxWaitSeconds
       IN  /\ maxWaitSeconds' = seconds
           /\ maxAttempts' = WrapInt(seconds * checksPerSecond)
    /\ attempt' = 0
    /\ waitPc' = "loop"
    /\ UNCHANGED <<status, polls, waitRet, cacheVars>>

\* one pass of the loop: the sleep, getOrderStatus, and the switch
WaitPoll ==
    /\ waitPc = "loop"
    /\ attempt < maxAttempts
    /\ \E r \in PollResults :
           /\ status' = r
           /\ polls' = polls + 1
           /\ waitRet' = PollOutcome(r)
           /\ IF PollOutcome(r) = "none"
              THEN attempt' = attempt + 1 /\ waitPc' = "loop"
              ELSE attempt' = attempt /\ waitPc' = "done"
    /\ UNCHANGED <<maxWaitSeconds, maxAttempts, cacheVars>>

\* the loop is over: return the timeout error
WaitTimeout ==
    /\ waitPc = "loop"
    /\ ~(attempt < maxAttempts)
    /\ waitRet' = ErrTimeout
    /\ waitPc' = "done"
    /\ UNCHANGED <<maxWaitSeconds, maxAttempts, attempt, status, polls,
                   cacheVars>>

(* ---------------------------- specification ---------------------------- *)

\* the callers write: InitSymbol and UpdateSymbol
NextWrite ==
    \/ Tick
    \/ \E p \in Procs, s \in Symbols, m \in MaxKlinesSet : CallInitSymbol(p, s, m)
    \/ \E p \in Procs : InitLock(p)
    \/ \E p \in Procs : InitSkip(p)
    \/ \E p \in Procs : InitBegin(p)
    \/ \E p \in Procs : InitFetch(p)
    \/ \E p \in Procs : InitInstall(p)
    \/ \E p \in Procs, s \in Symbols : CallUpdateSymbol(p, s)
    \/ \E p \in Procs : UpdLock(p)
    \/ \E p \in Procs : UpdNotInit(p)
    \/ \E p \in Procs : UpdBegin(p)
    \/ \E p \in Procs : UpdFetch(p)
    \/ \E p \in Procs : UpdReturn(p)

\* the callers read: the GetKlines family and the detectors
NextRead ==
    \/ \E p \in Procs, s \in Symbols, tf \in ReadFrames, n \in GetLimits :
           CallGetKlines(p, s, tf, n)
    \/ \E p \in Procs, s \in Symbols, tf \in ReadFrames :
           CallGetLatestKline(p, s, tf)
    \/ \E p \in Procs, s \in Symbols, tf \in ReadFrames :
           CallGetLatestTwoKlines(p, s, tf)
    \/ \E p \in Procs, s \in Symbols, tf \in ReadFrames :
           CallDetectPinBar(p, s, tf)
    \/ \E p \in Procs, s \in Symbols, tf \in ReadFrames :
           CallDetectVolumeSpike(p, s, tf)
    \/ \E p \in Procs, s \in Symbols, tf \in ReadFrames :
           CallDetectEngulfing(p, s, tf)
    \/ \E p \in Procs, s \in Symbols, tfs \in DetectLists :
           CallDetectAllSignals(p, s, tfs)
    \/ \E p \in Procs : GetLock(p)
    \/ \E p \in Procs : GetNotInit(p)
    \/ \E p \in Procs : GetBegin(p)
    \/ \E p \in Procs : GetRead(p)

Next == NextWrite \/ NextRead

\* the callers run detectors
NextDetect ==
    \/ \E p \in Procs, s \in Symbols, tf \in ReadFrames :
           CallDetectPinBar(p, s, tf)
    \/ \E p \in Procs, s \in Symbols, tf \in ReadFrames :
           CallDetectVolumeSpike(p, s, tf)
    \/ \E p \in Procs, s \in Symbols, tf \in ReadFrames :
           CallDetectEngulfing(p, s, tf)
    \/ \E p \in Procs, s \in Symbols, tfs \in DetectLists :
           CallDetectAllSignals(p, s, tfs)
    \/ \E p \in Procs : GetLock(p)
    \/ \E p \in Procs : GetNotInit(p)
    \/ \E p \in Procs : GetBegin(p)
    \/ \E p \in Procs : GetRead(p)

\* the callers filter and combine signals
NextSignals ==
    \/ \E p \in Procs : CallFilterStrongSignals(p)
    \/ \E p \in Procs : CallCombineSignals(p)

\* the callers write and read, and their Lock calls wait
NextLive ==
    \/ Tick
    \/ \E p \in Procs, s \in Symbols, m \in MaxKlinesSet : CallInitSymbol(p, s, m)
    \/ \E p \in Procs, s \in Symbols : CallUpdateSymbol(p, s)
    \/ \E p \in Procs, s \in Symbols, tf \in ReadFrames, n \in GetLimits :
           CallGetKlines(p, s, tf, n)
    \/ \E p \in Procs, s \in Symbols, tf \in ReadFrames :
           CallGetLatestKline(p, s, tf)
    \/ \E p \in Procs, s \in Symbols, tf \in ReadFrames :
           CallGetLatestTwoKlines(p, s, tf)
    \/ \E p \in Procs, s \in Symbols, tf \in ReadFrames :
           CallDetectPinBar(p, s, tf)
    \/ \E p \in Procs, s \in Symbols, tf \in ReadFrames :
           CallDetectVolumeSpike(p, s, tf)
    \/ \E p \in Procs, s \in Symbols, tf \in ReadFrames :
           CallDetectEngulfing(p, s, tf)
    \/ \E p \in Procs, s \in Symbols, tfs \in DetectLists :
           CallDetectAllSignals(p, s, tfs)
    \/ \E p \in Procs : Running(p)

\* the callers write, and the provider may answer an UpdateSymbol late
NextStale ==
    \/ NextWrite
    \/ \E p \in Procs : UpdFetchStale(p)

\* the callers call GetKlines with limits of every sign
NextLimits ==
    \/ \E p \in Procs, s \in Symbols, tf \in ReadFrames, n \in AnyLimits :
           CallGetKlines(p, s, tf, n)
    \/ \E p \in Procs : GetLock(p)
    \/ \E p \in Procs : GetNotInit(p)
    \/ \E p \in Procs : GetBegin(p)
    \/ \E p \in Procs : GetRead(p)

\* waitForOrderFilled runs
NextWait ==
    \/ WaitBegin
    \/ WaitPoll
    \/ WaitTimeout

\* two callers that write, at the same time
Spec == Init /\ [][NextWrite]_vars

\* one caller that writes
SpecSeq == InitSeq /\ [][NextWrite]_vars

\* one caller that writes, with a provider that may answer late
SpecStale == InitSeq /\ [][NextStale]_vars

\* one caller that writes and reads
SpecRead == InitRead /\ [][Next]_vars

\* a caller that writes and a caller that writes or reads, at the same time
SpecMix == InitMix /\ [][Next]_vars

\* two callers that write or read, at the same time
SpecShare == InitShare /\ [][Next]_vars

\* one caller that runs one detector on candles of every shape
SpecDetect == InitDetect /\ [][NextDetect]_vars

\* two callers of GetKlines with limits of every sign
SpecLimits == InitLimits /\ [][NextLimits]_vars

\* one caller that filters and combines a list of signals
SpecSignals == InitSignals /\ [][NextSignals]_vars

\* two callers that write or read on a cache that holds a symbol.  Every
\* call that has started goes on: the scheduler runs every goroutine that
\* can run, and every provider call returns.  Nothing makes a caller call.
SpecLive ==
    InitLive /\ [][NextLive]_vars /\ \A p \in Procs : WF_vars(Running(p))

\* one call of waitForOrderFilled.  The call goes on: time.Sleep ends and
\* getOrderStatus returns.
SpecWait == InitWait /\ [][NextWait]_vars /\ WF_vars(NextWait)

(* ------------------------------- claims -------------------------------- *)

StrictlyAscending(ks) ==
    \A j \in 1..(Len(ks) - 1) : ks[j].OpenTime < ks[j + 1].OpenTime

\* caller p takes a step of its call
Steps(p) == pc'[p] # pc[p] \/ frame'[p] # frame[p]

\* caller p runs one pass of UpdateSymbol's loop
UpdFetchStep(p) == pc[p] = "upd_fetch" /\ frame'[p] # frame[p]

\* the answer of the pass, its timeframe, and the series before and after
StepAnswer(p) == Last(frame'[p].resp)

StepTf(p) == TimeFrames[frame[p].i]

StepOld(p) == MapGet(cache[frame[p].symbol], StepTf(p))

StepNew(p) == MapGet(cache'[frame[p].symbol], StepTf(p))

\* the timeframes the running or just finished UpdateSymbol of caller p has
\* merged an answer with candles into
Merged(p) ==
    IF pc[p] \in {"upd_fetch", "upd_ret"}
    THEN {TimeFrames[j] : j \in {k \in 1..Len(frame[p].resp) :
              ~frame[p].resp[k].err /\ Len(frame[p].resp[k].klines) > 0}}
    ELSE {}

\* C1: after any sequence of InitSymbol and UpdateSymbol calls every stored
\* series has strictly ascending open_times (so no open_time twice).
C1_StrictlyAscending ==
    \A s \in DOMAIN cache : \A tf \in DOMAIN cache[s] :
        StrictlyAscending(cache[s][tf])

\* C2 as stated: after any write every stored series has at most 20 candles.
C2_AtMostMaxKeep ==
    \A s \in DOMAIN cache : \A tf \in DOMAIN cache[s] :
        Len(cache[s][tf]) <= maxKeep

\* C2 as amended: a stored series has at most max(20, maxKlines) candles,
\* maxKlines being that of the InitSymbol that installed the record; and a
\* timeframe into which the running UpdateSymbol has merged an answer with
\* candles has at most 20.
C2_Retention ==
    /\ \A s \in DOMAIN cache : \A tf \in DOMAIN cache[s] :
           Len(cache[s][tf]) <= Max(maxKeep, initLimit[s])
    /\ \A p \in Procs : \A tf \in Merged(p) :
           Len(cache[frame[p].symbol][tf]) <= maxKeep

C2_Witness ==
    \E p \in Procs : \E tf \in Merged(p) :
        /\ Len(MapGet(frame[p].before, tf)) > maxKeep
        /\ Len(cache[frame[p].symbol][tf]) = maxKeep
        /\ \E tg \in DOMAIN cache[frame[p].symbol] :
               Len(cache[frame[p].symbol][tg]) > maxKeep

\* C3: new-period append.  When the stored series is not empty and the
\* fetched latest candle opens after the stored latest one, the series grows
\* by exactly one candle and its last two candles are the old latest one and
\* the fetched latest one.
C3_AppendGrowsByOne ==
    [][\A p \in Procs :
          (/\ UpdFetchStep(p)
           /\ ~StepAnswer(p).err
           /\ Len(StepAnswer(p).klines) > 0
           /\ Len(StepOld(p)) > 0
           /\ Last(StepAnswer(p).klines).OpenTime > Last(StepOld(p)).OpenTime)
          => /\ Len(StepNew(p)) = Len(StepOld(p)) + 1
             /\ StepNew(p)[Len(StepNew(p)) - 1] = Last(StepOld(p))
             /\ Last(StepNew(p)) = Last(StepAnswer(p).klines)]_vars

\* the pass overwrites: the fetched latest candle opens when the stored
\* latest one does
OverwriteStep(p) ==
    /\ UpdFetchStep(p)
    /\ ~StepAnswer(p).err
    /\ Len(StepAnswer(p).klines) > 0
    /\ Len(StepOld(p)) > 0
    /\ Last(StepAnswer(p).klines).OpenTime = Last(StepOld(p)).OpenTime

\* C4 as stated: forming-candle overwrite.  The length of the series is
\* unchanged, every candle but the last is unchanged, and the last one is the
\* fetched latest candle.
C4_OverwriteKeepsLength ==
    [][\A p \in Procs :
          OverwriteStep(p)
          => /\ Len(StepNew(p)) = Len(StepOld(p))
             /\ \A j \in 1..(Len(StepOld(p)) - 1) : StepNew(p)[j] = StepOld(p)[j]
             /\ Last(StepNew(p)) = Last(StepAnswer(p).klines)]_vars

\* C4 as amended: the series of n candles becomes its own last min(n, 20)
\* candles with the final one replaced by the fetched latest candle; so for
\* n <= 20 the length and every candle but the last are unchanged.
C4_OverwriteThenRetain ==
    [][\A p \in Procs :
          OverwriteStep(p)
          => LET n == Len(StepOld(p))
                 m == Min(n, maxKeep)
             IN  /\ Len(StepNew(p)) = m
                 /\ \A j \in 1..(m - 1) : StepNew(p)[j] = StepOld(p)[n - m + j]
                 /\ Last(StepNew(p)) = Last(StepAnswer(p).klines)]_vars

\* an overwrite has just replaced the latest candle of a series of more than
\* 20 candles by one with other values
C4_Witness ==
    \E p \in Procs :
        /\ pc[p] \in {"upd_fetch", "upd_ret"}
        /\ Len(frame[p].resp) > 0
        /\ LET r == Last(frame[p].resp)
               tf == TimeFrames[Len(frame[p].resp)]
               old == MapGet(frame[p].before, tf)
           IN  /\ ~r.err
               /\ Len(r.klines) > 0
               /\ Len(old) > maxKeep
               /\ Last(r.klines).OpenTime = Last(old).OpenTime
               /\ Last(r.klines) # Last(old)
               /\ Last(cache[frame[p].symbol][tf]) = Last(r.klines)

\* C5: merge idempotence.  An UpdateSymbol that got, for every timeframe,
\* the answer the UpdateSymbol before it on that symbol got, returns with
\* every series as it found it.
C5_MergeIdempotent ==
    \A p \in Procs :
        (pc[p] = "upd_ret" /\ frame[p].resp = prevResp[frame[p].symbol])
        => cache[frame[p].symbol] = frame[p].before

\* the second of two such calls returns, the first having appended
C5_Witness ==
    \E p \in Procs :
        /\ pc[p] = "upd_ret"
        /\ frame[p].resp = prevResp[frame[p].symbol]
        /\ \E j \in 1..Len(frame[p].resp) :
               /\ ~frame[p].resp[j].err
               /\ Len(frame[p].resp[j].klines) = updateLimit
               /\ Len(cache[frame[p].symbol][TimeFrames[j]]) > updateLimit

\* the callers that are inside InitSymbol's loop, or past it, for symbol s
Initializing(s) ==
    {p \in Procs : /\ frame[p].op = "InitSymbol"
                   /\ frame[p].symbol = s
                   /\ pc[p] \in {"init_fetch", "init_install"}}

\* C6: concurrent initialization.  Whatever the interleaving of the
\* InitSymbol calls for a symbol, one caller at a time fetches, the record is
\* installed once, the provider has then been asked six times for the
\* symbol, and every InitSymbol that has returned has returned success.
C6_SingleInit ==
    /\ \A s \in Symbols :
           /\ Cardinality(Initializing(s)) <= 1
           /\ installs[s] = IF s \in DOMAIN cache THEN 1 ELSE 0
           /\ s \in DOMAIN cache
                  => Initializing(s) = {} /\ initFetches[s] = Len(TimeFrames)
           /\ s \notin DOMAIN cache
                  => initFetches[s] =
                         IF Initializing(s) = {} THEN 0
                         ELSE Len(frame[CHOOSE p \in Initializing(s) : TRUE].resp)
    /\ \A p \in Procs :
           (frame[p].op = "InitSymbol" /\ pc[p] = "idle")
           => frame[p].ret = "nil" /\ frame[p].symbol \in DOMAIN cache

\* one caller has installed the record, the other one, calling for the same
\* symbol, holds the lock and finds the record
C6_Witness ==
    \E p \in Procs : \E q \in Procs \ {p} :
        /\ frame[p].op = "InitSymbol" /\ frame[q].op = "InitSymbol"
        /\ frame[p].symbol = frame[q].symbol
        /\ pc[q] = "idle" /\ frame[q].ret = "nil"
        /\ pc[p] = "init_check"
        /\ initFetches[frame[p].symbol] = Len(TimeFrames)
        /\ installs[frame[p].symbol] = 1

\* C7: InitSymbol is idempotent.  Every step of an InitSymbol for a symbol
\* that has a record leaves the cache as it is and asks the provider
\* nothing, and the call returns success.
C7_InitIdempotent ==
    [][\A p \in Procs :
          (/\ frame[p].op = "InitSymbol"
           /\ pc[p] # "idle"
           /\ frame[p].symbol \in DOMAIN cache
           /\ Steps(p))
          => /\ pc[p] \in {"init_lock", "init_check"}
             /\ cache' = cache
             /\ initFetches' = initFetches
             /\ frame[p].resp = <<>>
             /\ pc[p] = "init_check"
                    => pc'[p] = "idle" /\ frame'[p].ret = "nil"]_vars

\* an InitSymbol has returned whose maxKlines is not the one the record,
\* which holds candles, was installed with
C7_Witness ==
    \E p \in Procs :
        /\ pc[p] = "idle"
        /\ frame[p].op = "InitSymbol"
        /\ frame[p].ret = "nil"
        /\ frame[p].symbol \in DOMAIN cache
        /\ frame[p].maxKlines # initLimit[frame[p].symbol]
        /\ \E tf \in DOMAIN cache[frame[p].symbol] :
               Len(cache[frame[p].symbol][tf]) > 0

\* C8: every step of an UpdateSymbol for a symbol without a record leaves
\* the cache as it is and asks the provider nothing, and the call returns
\* the error.
C8_UpdateNotInitialized ==
    [][\A p \in Procs :
          (/\ frame[p].op = "UpdateSymbol"
           /\ pc[p] # "idle"
           /\ frame[p].symbol \notin DOMAIN cache
           /\ Steps(p))
          => /\ pc[p] \in {"upd_lock", "upd_check"}
             /\ cache' = cache
             /\ frame'[p].resp = <<>>
             /\ pc[p] = "upd_check"
                    => /\ pc'[p] = "idle"
                       /\ frame'[p].ret = "not initialized"]_vars

\* an UpdateSymbol has returned the error while another symbol has a record
C8_Witness ==
    \E p \in Procs :
        /\ pc[p] = "idle"
        /\ frame[p].op = "UpdateSymbol"
        /\ frame[p].ret = "not initialized"
        /\ frame[p].symbol \notin DOMAIN cache
        /\ DOMAIN cache # {}

\* the timeframes whose fetch did not fail, of the answers resp
Fetched(resp) == {TimeFrames[j] : j \in {k \in 1..Len(resp) : ~resp[k].err}}

\* C9: InitSymbol for a new symbol goes through all six fetches whatever
\* fails, installs the record and returns success; the record holds, for
\* each timeframe whose fetch succeeded, the candles returned, and nothing
\* for the others.
C9_InitBestEffort ==
    [][\A p \in Procs :
          /\ (pc[p] = "init_fetch" /\ Steps(p))
                 => /\ frame'[p].i = frame[p].i + 1
                    /\ Len(frame'[p].resp) = frame[p].i
                    /\ pc'[p] = IF frame[p].i = Len(TimeFrames)
                                THEN "init_install" ELSE "init_fetch"
          /\ (pc[p] = "init_install" /\ Steps(p))
                 => LET f == frame[p]
                    IN  /\ Len(f.resp) = Len(TimeFrames)
                        /\ pc'[p] = "idle"
                        /\ frame'[p].ret = "nil"
                        /\ DOMAIN cache' = (DOMAIN cache) \cup {f.symbol}
                        /\ \A s \in (DOMAIN cache) \ {f.symbol} :
                               cache'[s] = cache[s]
                        /\ DOMAIN cache'[f.symbol] = Fetched(f.resp)
                        /\ \A j \in 1..Len(f.resp) :
                               ~f.resp[j].err
                               => cache'[f.symbol][TimeFrames[j]]
                                      = f.resp[j].klines]_vars

\* a record was installed after one fetch failed and a later one returned
\* candles; no UpdateSymbol has run
C9_Witness ==
    \E s \in DOMAIN cache :
        /\ \A p \in Procs : frame[p].op # "UpdateSymbol"
        /\ prevResp[s] = <<>>
        /\ \E j \in 1..Len(TimeFrames) : \E k \in (j + 1)..Len(TimeFrames) :
               /\ TimeFrames[j] \notin DOMAIN cache[s]
               /\ TimeFrames[k] \in DOMAIN cache[s]
               /\ Len(cache[s][TimeFrames[k]]) > 0

\* C10: UpdateSymbol on a symbol with a record goes through all six
\* timeframes and returns success; a pass whose fetch fails or returns no
\* candles leaves the cache as it is, any other pass merges into its own
\* timeframe and leaves the others alone; so at the return every timeframe
\* whose fetch failed or returned no candles is as the call found it.
C10_UpdateBestEffort ==
    [][\A p \in Procs :
          /\ UpdFetchStep(p)
                 => LET f == frame[p]
                        r == StepAnswer(p)
                    IN  /\ frame'[p].i = f.i + 1
                        /\ Len(frame'[p].resp) = f.i
                        /\ pc'[p] = IF f.i = Len(TimeFrames)
                                    THEN "upd_ret" ELSE "upd_fetch"
                        /\ (r.err \/ Len(r.klines) = 0) => cache' = cache
                        /\ ~(r.err \/ Len(r.klines) = 0)
                               => /\ DOMAIN cache' = DOMAIN cache
                                  /\ \A s \in (DOMAIN cache) \ {f.symbol} :
                                         cache'[s] = cache[s]
                                  /\ DOMAIN cache'[f.symbol] =
                                         (DOMAIN cache[f.symbol]) \cup {StepTf(p)}
                                  /\ \A tf \in (DOMAIN cache[f.symbol]) \ {StepTf(p)} :
                                         cache'[f.symbol][tf] = cache[f.symbol][tf]
                                  /\ Last(StepNew(p)) = Last(r.klines)
          /\ (pc[p] = "upd_ret")
                 => /\ Len(frame[p].resp) = Len(TimeFrames)
                    /\ \A j \in 1..Len(TimeFrames) :
                           (frame[p].resp[j].err
                               \/ Len(frame[p].resp[j].klines) = 0)
                           => /\ (TimeFrames[j] \in DOMAIN cache[frame[p].symbol])
                                     <=> (TimeFrames[j] \in DOMAIN frame[p].before)
                              /\ MapGet(cache[frame[p].symbol], TimeFrames[j])
                                     = MapGet(frame[p].before, TimeFrames[j])
                    /\ Steps(p) => pc'[p] = "idle" /\ frame'[p].ret = "nil"]_vars

\* an UpdateSymbol is about to return: an early timeframe that holds candles
\* got an error or no candles, a later one was merged into and changed
C10_Witness ==
    \E p \in Procs :
        /\ pc[p] = "upd_ret"
        /\ \E j \in 1..Len(TimeFrames) : \E k \in (j + 1)..Len(TimeFrames) :
               /\ frame[p].resp[j].err \/ Len(frame[p].resp[j].klines) = 0
               /\ Len(MapGet(frame[p].before, TimeFrames[j])) > 0
               /\ ~frame[p].resp[k].err
               /\ Len(frame[p].resp[k].klines) > 0
               /\ MapGet(cache[frame[p].symbol], TimeFrames[k])
                      # MapGet(frame[p].before, TimeFrames[k])
               /\ Len(MapGet(frame[p].before, TimeFrames[k])) > 0

\* caller p is inside a cache or detector call that works on symbol s
Inside(p, s) == pc[p] # "idle" /\ frame[p].symbol = s

\* caller p has found the record of its symbol: it is past the existence
\* check of UpdateSymbol or of GetKlines
Observing(p) == pc[p] \in {"upd_fetch", "upd_ret", "get_read"}

\* C11: a symbol has a record only once an InitSymbol for it has made all
\* six fetch attempts, and every InitSymbol that has returned has left one;
\* so whoever finds the record finds it after the last attempt, and no step
\* of an InitSymbol changes a record that is in the cache.
C11_VisibleWhenComplete ==
    /\ [](\A s \in Symbols :
             /\ s \in DOMAIN cache
                    => initFetches[s] = Len(TimeFrames) /\ Initializing(s) = {}
             /\ (\E p \in Procs : /\ frame[p].op = "InitSymbol"
                                  /\ frame[p].symbol = s
                                  /\ pc[p] = "idle")
                    => s \in DOMAIN cache
             /\ \A p \in Procs :
                    (Observing(p) /\ frame[p].symbol = s) => s \in DOMAIN cache)
    /\ [][\A p \in Procs : \A s \in DOMAIN cache :
             (frame[p].op = "InitSymbol" /\ Steps(p))
             => s \in DOMAIN cache' /\ cache'[s] = cache[s]]_vars

\* an InitSymbol is in its loop and has stored candles for one timeframe;
\* a GetKlines for the same symbol has been called, and the symbol has no
\* record
C11_Witness ==
    \E p \in Procs : \E q \in Procs \ {p} :
        /\ pc[p] = "init_fetch"
        /\ \E tf \in DOMAIN frame[p].mtk : Len(frame[p].mtk[tf]) > 0
        /\ frame[q].op = "GetKlines"
        /\ Inside(q, frame[p].symbol)
        /\ frame[p].symbol \notin DOMAIN cache

\* caller p, both read locks held, runs the lookup and the slice of the
\* GetKlines that function kind makes
GetReadStep(p, kind) ==
    /\ pc[p] = "get_read"
    /\ Head(frame[p].todo).kind = kind
    /\ Steps(p)

\* the series that GetKlines looks up
ReadSeries(p) == MapGet(cache[frame[p].symbol], Head(frame[p].todo).timeFrame)

\* C12: GetKlines(symbol, timeframe, limit) with limit >= 1 on a stored
\* series of n candles returns, without an error, the last min(limit, n)
\* candles of the series in the stored order, and leaves the cache as it is.
C12_GetKlinesLatest ==
    [][\A p \in Procs :
          (/\ GetReadStep(p, "GetKlines")
           /\ Head(frame[p].todo).timeFrame \in DOMAIN cache[frame[p].symbol]
           /\ Head(frame[p].todo).limit >= 1)
          => LET n == Len(ReadSeries(p))
                 m == Min(Head(frame[p].todo).limit, n)
             IN  /\ pc'[p] = "idle"
                 /\ frame'[p].ret = "nil"
                 /\ Len(frame'[p].out) = m
                 /\ \A j \in 1..m :
                        frame'[p].out[j] = ReadSeries(p)[n - m + j]
                 /\ cache' = cache]_vars

\* a GetKlines has returned the latest maxKeep candles of a longer series
C12_Witness ==
    \E p \in Procs :
        /\ pc[p] = "idle"
        /\ frame[p].op = "GetKlines"
        /\ frame[p].ret = "nil"
        /\ Len(frame[p].out) = maxKeep
        /\ \E tf \in DOMAIN cache[frame[p].symbol] :
               LET ks == cache[frame[p].symbol][tf]
               IN  /\ Len(ks) > maxKeep
                   /\ frame[p].out = SubSeq(ks, Len(ks) - maxKeep + 1, Len(ks))
                   /\ frame[p].out # SubSeq(ks, 1, maxKeep)

\* C13: a GetKlines for a symbol without a record returns the
\* not-initialized error, and one for a symbol whose record has no series
\* for the timeframe returns the timeframe-not-found error; both return no
\* candles and leave the cache as it is.
C13_GetKlinesErrors ==
    [][\A p \in Procs :
          /\ (/\ pc[p] = "get_check"
              /\ frame[p].op = "GetKlines"
              /\ frame[p].symbol \notin DOMAIN cache
              /\ Steps(p))
                 => /\ pc'[p] = "idle"
                    /\ frame'[p].ret = "not initialized"
                    /\ frame'[p].out = <<>>
                    /\ cache' = cache
          /\ (/\ GetReadStep(p, "GetKlines")
              /\ Head(frame[p].todo).timeFrame
                     \notin DOMAIN cache[frame[p].symbol])
                 => /\ pc'[p] = "idle"
                    /\ frame'[p].ret = "timeframe not found"
                    /\ frame'[p].out = <<>>
                    /\ cache' = cache]_vars

\* a GetKlines has returned the timeframe-not-found error for a symbol whose
\* record holds candles of another timeframe
C13_Witness ==
    \E p \in Procs :
        /\ pc[p] = "idle"
        /\ frame[p].op = "GetKlines"
        /\ frame[p].ret = "timeframe not found"
        /\ frame[p].symbol \in DOMAIN cache
        /\ \E tf \in DOMAIN cache[frame[p].symbol] :
               Len(cache[frame[p].symbol][tf]) > 0

\* C14: when the series exists but is empty, GetLatestKline and
\* GetLatestTwoKlines both return the no-data error, never a successful
\* empty result.
C14_NoDataOnEmpty ==
    [][\A p \in Procs :
          (/\ frame[p].op \in {"GetLatestKline", "GetLatestTwoKlines"}
           /\ GetReadStep(p, frame[p].op)
           /\ Head(frame[p].todo).timeFrame \in DOMAIN cache[frame[p].symbol]
           /\ Len(ReadSeries(p)) = 0)
          => /\ pc'[p] = "idle"
             /\ frame'[p].ret = "no klines available"
             /\ frame'[p].out = <<>>]_vars

\* C15: operations on different symbols never block one another.  While
\* an UpdateSymbol on one symbol is in its fetch loop, waiting on the
\* provider, an UpdateSymbol or a GetKlines (direct, or made by one of the
\* functions built on it) on another symbol that has a record gets each lock
\* it asks for.
C15_NoCrossSymbolBlocking ==
    \A q \in Procs : \A p \in Procs \ {q} :
        (/\ pc[q] = "upd_fetch"
         /\ pc[p] \in {"upd_lock", "upd_check", "get_lock", "get_check"}
         /\ frame[p].symbol # frame[q].symbol
         /\ frame[p].symbol \in DOMAIN cache)
        => /\ pc[p] = "upd_lock" => CanLock(kcMu)
           /\ pc[p] = "upd_check" => CanLock(mtkMu[frame[p].symbol])
           /\ pc[p] = "get_lock" => CanRLock(kcMu)
           /\ pc[p] = "get_check" => CanRLock(mtkMu[frame[p].symbol])

\* C16: the cache-wide lock is not held while a provider call is in progress,
\* except inside InitSymbol: a caller in the fetch loop of UpdateSymbol does
\* not hold kc.mu.
C16_NoCacheLockDuringUpdateFetch ==
    \A p \in Procs : pc[p] = "upd_fetch" => kcMu.w # p /\ p \notin kcMu.r

\* the callers inside the series-modifying section of UpdateSymbol for
\* symbol s, and those reading a series of s inside GetKlines
Modifying(s) ==
    {p \in Procs : pc[p] \in {"upd_fetch", "upd_ret"} /\ frame[p].symbol = s}

Reading(s) == {p \in Procs : pc[p] = "get_read" /\ frame[p].symbol = s}

\* C17: per-symbol mutual exclusion.  At most one UpdateSymbol is inside
\* its series-modifying section for a symbol, holding the symbol's lock as
\* the writer, and then no GetKlines reads a series of that symbol; the
\* readers hold the lock as readers, with no writer.
C17_PerSymbolExclusion ==
    \A s \in Symbols :
        /\ Cardinality(Modifying(s)) <= 1
        /\ Modifying(s) # {} => Reading(s) = {}
        /\ \A p \in Modifying(s) : mtkMu[s].w = p /\ mtkMu[s].r = {}
        /\ \A p \in Reading(s) : p \in mtkMu[s].r /\ mtkMu[s].w = 0

\* an UpdateSymbol is inside its section and has changed a series, while a
\* GetKlines for the same symbol has been called and waits
C17_Witness ==
    \E p \in Procs : \E q \in Procs \ {p} :
        /\ pc[p] = "upd_fetch"
        /\ cache[frame[p].symbol] # frame[p].before
        /\ pc[q] \in {"get_lock", "get_check"}
        /\ frame[q].symbol = frame[p].symbol

\* two GetKlines read series of the same symbol at the same time
C17_ReadersShare ==
    \E s \in DOMAIN cache : Cardinality(Reading(s)) > 1

\* C18: a symbol that has a record has it in every later state.  No step
\* of any call removes a record or installs one over it, and the only steps
\* that change what a record holds are the passes of an UpdateSymbol for
\* that symbol.
C18_RecordStays ==
    [][\A s \in DOMAIN cache :
          /\ s \in DOMAIN cache'
          /\ installs'[s] = installs[s]
          /\ cache'[s] # cache[s]
                 => \E p \in Procs : UpdFetchStep(p) /\ frame[p].symbol = s]_vars

\* the record was installed once, an UpdateSymbol has merged candles into
\* it, and an InitSymbol for the symbol has returned after that
C18_Witness ==
    \E p \in Procs :
        /\ pc[p] = "idle"
        /\ frame[p].op = "InitSymbol"
        /\ frame[p].symbol \in DOMAIN cache
        /\ installs[frame[p].symbol] = 1
        /\ \E j \in 1..Len(prevResp[frame[p].symbol]) :
               /\ ~prevResp[frame[p].symbol][j].err
               /\ Len(prevResp[frame[p].symbol][j].klines) > 0

\* the detector operations
Detectors ==
    {"DetectPinBar", "DetectVolumeSpike", "DetectEngulfing", "DetectAllSignals"}

\* C19: no step of a detector call changes the cache: the symbols, the
\* timeframes of each symbol and every stored series are after the step
\* what they were before it.
C19_DetectorsReadOnly ==
    [][\A p \in Procs :
          (frame[p].op \in Detectors /\ Steps(p)) => cache' = cache]_vars

\* a DetectAllSignals has returned signals, found in a series of more than
\* two candles
C19_Witness ==
    \E p \in Procs :
        /\ pc[p] = "idle"
        /\ frame[p].op = "DetectAllSignals"
        /\ Len(frame[p].out) > 0
        /\ \E tf \in DOMAIN cache[frame[p].symbol] :
               Len(cache[frame[p].symbol][tf]) > updateLimit

\* the rule whose GetKlines caller p is making has nothing to evaluate: the
\* symbol has no record, or the timeframe no series, or the series is empty,
\* or (volume spike, engulfing) it has a single candle
NothingToEvaluate(p) ==
    LET rd == Head(frame[p].todo)
    IN  \/ pc[p] = "get_check" /\ frame[p].symbol \notin DOMAIN cache
        \/ /\ pc[p] = "get_read"
           /\ \/ rd.timeFrame \notin DOMAIN cache[frame[p].symbol]
              \/ Len(ReadSeries(p)) = 0
              \/ rd.kind # "DetectPinBar" /\ Len(ReadSeries(p)) = 1

\* C20: detectors never fail.  A rule that has nothing to evaluate adds no
\* signal and no error; the call returns its signals when that rule was its
\* last one, and DetectAllSignals goes on to its next rule otherwise.
C20_DetectorsNeverFail ==
    [][\A p \in Procs :
          (/\ frame[p].op \in Detectors
           /\ pc[p] \in {"get_check", "get_read"}
           /\ NothingToEvaluate(p)
           /\ Steps(p))
          => /\ frame'[p].out = frame[p].out
             /\ IF Len(frame[p].todo) > 1
                THEN /\ pc'[p] = "get_lock"
                     /\ frame'[p].todo = Tail(frame[p].todo)
                     /\ frame'[p].ret = "none"
                ELSE /\ pc'[p] = "idle"
                     /\ frame'[p].ret = "signals"]_vars

\* a DetectAllSignals has returned the signals of its second timeframe, the
\* first one having no series
C20_Witness ==
    \E p \in Procs : \E tfs \in DetectLists :
        /\ pc[p] = "idle"
        /\ frame[p].op = "DetectAllSignals"
        /\ frame[p].ret = "signals"
        /\ frame[p].symbol \in DOMAIN cache
        /\ tfs[1] \notin DOMAIN cache[frame[p].symbol]
        /\ Len(frame[p].out) > 0
        /\ \A j \in 1..Len(frame[p].out) : frame[p].out[j].TimeFrame = tfs[2]

\* what GetKlines(symbol, timeFrame, limit) returns on the cache as it is
GetKlinesNow(symbol, timeFrame, limit) ==
    IF symbol \in DOMAIN cache
    THEN ReadKlines(cache[symbol], symbol, timeFrame, limit)
    ELSE Result(<<>>, ErrNotInitialized(symbol))

\* the signals of one timeframe: pin bar, then volume spike, then engulfing
SignalsOf(symbol, tf) ==
    DetectPinBar(symbol, tf, GetLatestKline(GetKlinesNow(symbol, tf, 1)))
    \o DetectVolumeSpike(symbol, tf,
                         GetLatestTwoKlines(GetKlinesNow(symbol, tf, 2)))
    \o DetectEngulfing(symbol, tf,
                       GetLatestTwoKlines(GetKlinesNow(symbol, tf, 2)))

RECURSIVE SignalsOfAll(_, _)
SignalsOfAll(symbol, tfs) ==
    IF tfs = <<>> THEN <<>>
    ELSE SignalsOf(symbol, Head(tfs)) \o SignalsOfAll(symbol, Tail(tfs))

\* the place of a signal's rule among the three rules
RuleRank(signal) ==
    CASE signal.SignalType \in {"bullish_pin_bar", "bearish_pin_bar"} -> 1
      [] signal.SignalType = "volume_spike" -> 2
      [] OTHER -> 3

\* the place of timeframe tf in the list tfs
RECURSIVE IndexOf(_, _)
IndexOf(tfs, tf) ==
    IF tfs = <<>> \/ Head(tfs) = tf THEN 1 ELSE 1 + IndexOf(Tail(tfs), tf)

\* C21: DetectAllSignals(symbol, timeframes) returns the signals of the
\* requested timeframes in the order given, and for each timeframe the
\* pin-bar signals, then the volume-spike signals, then the engulfing
\* signals: a signal of an earlier timeframe precedes every signal of a
\* later one, and within a timeframe the rules keep their order.
C21_DetectAllOrder ==
    \A p \in Procs :
        (pc[p] = "idle" /\ frame[p].op = "DetectAllSignals")
        => \E tfs \in DetectLists :
               LET out == frame[p].out
               IN  /\ out = SignalsOfAll(frame[p].symbol, tfs)
                   /\ \A i \in 1..Len(out) : \A j \in (i + 1)..Len(out) :
                          \/ IndexOf(tfs, out[i].TimeFrame)
                                 < IndexOf(tfs, out[j].TimeFrame)
                          \/ /\ out[i].TimeFrame = out[j].TimeFrame
                             /\ RuleRank(out[i]) <= RuleRank(out[j])

\* a DetectAllSignals has returned a pin-bar, a volume-spike and an
\* engulfing signal for each of its two timeframes
C21_Witness ==
    \E p \in Procs : \E tfs \in DetectLists :
        /\ pc[p] = "idle"
        /\ frame[p].op = "DetectAllSignals"
        /\ Len(frame[p].out) = 2 * Len(Rules)
        /\ \A j \in 1..(2 * Len(Rules)) :
               /\ frame[p].out[j].TimeFrame = tfs[((j - 1) \div Len(Rules)) + 1]
               /\ RuleRank(frame[p].out[j]) = ((j - 1) % Len(Rules)) + 1

\* caller p's GetKlines for a rule of the given kind returns candles: the
\* rule has what it needs, with n candles at least
RuleStep(p, kind, n) ==
    /\ GetReadStep(p, kind)
    /\ Head(frame[p].todo).timeFrame \in DOMAIN cache[frame[p].symbol]
    /\ Len(ReadSeries(p)) >= n

\* the signals the step adds to the list of caller p
Emitted(p) ==
    SubSeq(frame'[p].out, Len(frame[p].out) + 1, Len(frame'[p].out))

\* the signals of the list that have the given type
OfType(signals, type) ==
    SelectSeq(signals, LAMBDA s : s.SignalType = type)

ShadowBonus(shadow, range) ==
    CASE 10 * shadow > 7 * range -> 25
      [] 10 * shadow <= 7 * range /\ 10 * shadow > 6 * range -> 20
      [] 10 * shadow <= 6 * range /\ 10 * shadow > 5 * range -> 15
      [] OTHER -> 0

\* the bonus for the body's share of the range
BodyBonus(body, range) ==
    CASE 100 * body < 15 * range -> 10
      [] 100 * body >= 15 * range /\ 100 * body < 25 * range -> 5
      [] OTHER -> 0

\* C23: the confidence of a pin-bar signal is 60, plus 25, 20, 15 or 0 as
\* shadow / range is > 0.7, > 0.6, > 0.5 or none of these, plus 10 when
\* body / range < 0.15 or else 5 when body / range < 0.25, plus 5 when the
\* opposite shadow < 0.5 body, and at most 100; it is between 60 and 100.
\* The shadow is the lower one for a bullish signal, the upper one for a
\* bearish signal.
C23_PinBarConfidence ==
    [][\A p \in Procs :
          RuleStep(p, "DetectPinBar", 1)
          => LET k == Last(ReadSeries(p))
                 body == Abs(k.Close - k.Open)
                 upper == k.High - Max(k.Open, k.Close)
                 lower == Min(k.Open, k.Close) - k.Low
                 range == k.High - k.Low
             IN  \A j \in 1..Len(Emitted(p)) :
                     LET s == Emitted(p)[j]
                         shadow == IF s.SignalType = "bullish_pin_bar"
                                   THEN lower ELSE upper
                         opposite == IF s.SignalType = "bullish_pin_bar"
                                     THEN upper ELSE lower
                         sum == 60 + ShadowBonus(shadow, range)
                                   + BodyBonus(body, range)
                                   + (IF 2 * opposite < body THEN 5 ELSE 0)
                     IN  /\ s.Confidence = IF sum > 100 THEN 100 ELSE sum
                         /\ s.Confidence \in 60..100]_vars

\* a DetectPinBar has returned a signal whose shadow is exactly 0.7 of the
\* range, so that the shadow bonus is 20 and not 25
C23_Witness ==
    \E p \in Procs :
        /\ pc[p] = "idle"
        /\ frame[p].op = "DetectPinBar"
        /\ Len(frame[p].out) = 1
        /\ frame[p].out[1].SignalType = "bearish_pin_bar"
        /\ LET k == Last(MapGet(cache[frame[p].symbol], frame[p].out[1].TimeFrame))
           IN  /\ 10 * (k.High - Max(k.Open, k.Close)) = 7 * (k.High - k.Low)
               /\ frame[p].out[1].Confidence
                      = 80 + BodyBonus(Abs(k.Close - k.Open), k.High - k.Low)
                           + (IF 2 * (Min(k.Open, k.Close) - k.Low)
                                    < Abs(k.Close - k.Open) THEN 5 ELSE 0)

\* the two candles a two-candle rule evaluates: the previous and the current
PrevKline(p) == ReadSeries(p)[Len(ReadSeries(p)) - 1]

CurrentKline(p) == Last(ReadSeries(p))

\* the confidence of a volume spike of cur over prev
SpikeConfidence(prev, cur) ==
    CASE cur >= 3 * prev -> 95
      [] cur < 3 * prev /\ 2 * cur >= 5 * prev -> 90
      [] 2 * cur < 5 * prev /\ cur >= 2 * prev -> 85
      [] cur < 2 * prev /\ 5 * cur >= 9 * prev -> 80
      [] OTHER -> 70

\* C24: the volume-spike rule.  For the latest two candles P and C,
\* DetectVolumeSpike emits exactly one signal when P.volume # 0 and
\* C.volume / P.volume >= 1.5, and none otherwise; the signal is short when
\* C.close < C.open and long otherwise (also when close = open); its
\* confidence is 95, 90, 85, 80 or 70 as the ratio is >= 3.0, >= 2.5,
\* >= 2.0, >= 1.8 or less.  Volumes 100 then 200 with C.close < C.open give
\* one short signal of confidence 85.
C24_VolumeSpikeRule ==
    [][\A p \in Procs :
          RuleStep(p, "DetectVolumeSpike", 2)
          => LET P == PrevKline(p)
                 C == CurrentKline(p)
                 spike == P.Volume # 0 /\ 2 * C.Volume >= 3 * P.Volume
             IN  /\ Len(Emitted(p)) = IF spike THEN 1 ELSE 0
                 /\ spike =>
                      LET s == Emitted(p)[1]
                      IN  /\ s.SignalType = "volume_spike"
                          /\ s.Direction = IF C.Close < C.Open
                                           THEN "short" ELSE "long"
                          /\ s.Confidence = SpikeConfidence(P.Volume, C.Volume)
                 /\ (P.Volume = 100 /\ C.Volume = 200 /\ C.Close < C.Open)
                      => /\ Len(Emitted(p)) = 1
                         /\ Emitted(p)[1].Direction = "short"
                         /\ Emitted(p)[1].Confidence = 85]_vars

\* a DetectVolumeSpike has returned one short signal of confidence 85 for
\* volumes 100 then 200
C24_Witness ==
    \E p \in Procs :
        /\ pc[p] = "idle"
        /\ frame[p].op = "DetectVolumeSpike"
        /\ Len(frame[p].out) = 1
        /\ frame[p].out[1].Direction = "short"
        /\ frame[p].out[1].Confidence = 85
        /\ LET ks == MapGet(cache[frame[p].symbol], frame[p].out[1].TimeFrame)
           IN  /\ Len(ks) = 2
               /\ ks[1].Volume = 100
               /\ ks[2].Volume = 200
               /\ ks[2].Close < ks[2].Open

\* the signals of the list that have the given direction
OfDirection(signals, direction) ==
    SelectSeq(signals, LAMBDA s : s.Direction = direction)

\* C25: the engulfing rule.  For the latest two candles P and C,
\* DetectEngulfing emits a long signal exactly when P.close < P.open,
\* C.close > C.open, C.open < P.close, C.close > P.open and the body of C is
\* larger than the body of P, and a short signal exactly when the mirrored
\* conditions hold; it emits nothing else.  The confidence is 90 when the
\* body of C is more than 1.5 times the body of P and 80 otherwise.
\* Previous {open 105, close 100} and current {open 99, close 107} give
\* exactly one signal, long, of confidence 90.
C25_EngulfingRule ==
    [][\A p \in Procs :
          RuleStep(p, "DetectEngulfing", 2)
          => LET P == PrevKline(p)
                 C == CurrentKline(p)
                 prevBody == Abs(P.Close - P.Open)
                 curBody == Abs(C.Close - C.Open)
                 long == /\ P.Close < P.Open /\ C.Close > C.Open
                         /\ C.Open < P.Close /\ C.Close > P.Open
                         /\ curBody > prevBody
                 short == /\ P.Close > P.Open /\ C.Close < C.Open
                          /\ C.Open > P.Close /\ C.Close < P.Open
                          /\ curBody > prevBody
                 longs == OfDirection(Emitted(p), "long")
                 shorts == OfDirection(Emitted(p), "short")
             IN  /\ Len(longs) = IF long THEN 1 ELSE 0
                 /\ Len(shorts) = IF short THEN 1 ELSE 0
                 /\ Len(Emitted(p)) = Len(longs) + Len(shorts)
                 /\ \A j \in 1..Len(Emitted(p)) :
                        /\ Emitted(p)[j].SignalType = "engulfing"
                        /\ Emitted(p)[j].Confidence
                               = IF 2 * curBody > 3 * prevBody THEN 90 ELSE 80
                 /\ <<P, C>> = EngulfingExample
                      => /\ Len(Emitted(p)) = 1
                         /\ Emitted(p)[1].Direction = "long"
                         /\ Emitted(p)[1].Confidence = 90]_vars

\* a DetectEngulfing has returned one signal of confidence 80 for a current
\* body of exactly 1.5 times the previous body
C25_Witness ==
    \E p \in Procs :
        /\ pc[p] = "idle"
        /\ frame[p].op = "DetectEngulfing"
        /\ Len(frame[p].out) = 1
        /\ frame[p].out[1].Confidence = 80
        /\ LET ks == MapGet(cache[frame[p].symbol], frame[p].out[1].TimeFrame)
           IN  /\ Len(ks) = 2
               /\ 2 * Abs(ks[2].Close - ks[2].Open)
                      = 3 * Abs(ks[1].Close - ks[1].Open)

\* C28: every signal a detector rule produces has an integer confidence
\* between 0 and 100 and the direction "long" or "short"; a bullish pin bar
\* is long and a bearish pin bar is short.
C28_SignalsWellFormed ==
    \A p \in Procs :
        frame[p].op \in Detectors
        => \A j \in 1..Len(frame[p].out) :
               LET s == frame[p].out[j]
               IN  /\ s.Confidence \in 0..100
                   /\ s.Direction \in {"long", "short"}
                   /\ s.SignalType = "bullish_pin_bar" => s.Direction = "long"
                   /\ s.SignalType = "bearish_pin_bar" => s.Direction = "short"

\* a detector has returned a list that holds a bullish pin bar and a short
\* volume spike
C28_Witness ==
    \E p \in Procs :
        /\ pc[p] = "idle"
        /\ frame[p].op \in Detectors
        /\ \E i, j \in 1..Len(frame[p].out) :
               /\ frame[p].out[i].SignalType = "bullish_pin_bar"
               /\ frame[p].out[j].SignalType = "volume_spike"
               /\ frame[p].out[j].Direction = "short"

\* caller p's call of the function op returns
PureStep(p, op) ==
    /\ callsLeft'[p] < callsLeft[p]
    /\ frame'[p].op = op

\* C26: FilterStrongSignals returns exactly the input signals whose
\* confidence is >= 80, in their input order and as they were: a signal of
\* confidence 80 is kept, one of 79 is dropped.  Filtering the result again
\* returns it unchanged.
C26_FilterStrong ==
    [][\A p \in Procs :
          PureStep(p, "FilterStrongSignals")
          => LET in == frame[p].out
                 out == frame'[p].out
             IN  /\ out = SelectSeq(in, LAMBDA s : s.Confidence >= 80)
                 /\ \A j \in 1..Len(out) : out[j].Confidence # 79
                 /\ Len(out) = Cardinality({j \in 1..Len(in) :
                                               in[j].Confidence >= 80})
                 /\ frame[p].op = "FilterStrongSignals" => out = in]_vars

\* a list has been filtered twice, and a signal of confidence 80 is in it
C26_Witness ==
    \E p \in Procs :
        /\ frame[p].op = "FilterStrongSignals"
        /\ callsLeft[p] = 0
        /\ Len(frame[p].out) > 1
        /\ \A j \in 1..Len(frame[p].out) : frame[p].out[j].Confidence = 80

\* what CombineSignals groups by
GroupOf(signal) == <<signal.Symbol, signal.TimeFrame, signal.Direction>>

\* C27: CombineSignals partitions its input by (symbol, timeframe,
\* direction).  Every group is the list of all input signals that agree
\* with one input signal on the three, in input order, so no group is
\* empty; signals that agree on the three are in one group and signals that
\* differ are in different groups; every input signal is in exactly one
\* group, as often as it is in the input.
C27_CombinePartitions ==
    [][\A p \in Procs :
          PureStep(p, "CombineSignals")
          => LET in == frame[p].out
                 combined == frame'[p].out
                 groups == {GroupOf(in[j]) : j \in 1..Len(in)}
                 Members(g) == SelectSeq(in, LAMBDA s : GroupOf(s) = g)
             IN  /\ \A k \in DOMAIN combined :
                        /\ combined[k] # <<>>
                        /\ \E g \in groups : combined[k] = Members(g)
                 /\ \A g \in groups :
                        Cardinality({k \in DOMAIN combined :
                                        combined[k] = Members(g)}) = 1
                 /\ Cardinality(DOMAIN combined) = Cardinality(groups)]_vars

\* a list of three signals has been combined into two groups, one of them
\* holding two signals that differ in confidence, in their input order
C27_Witness ==
    \E p \in Procs :
        /\ frame[p].op = "CombineSignals"
        /\ Cardinality(DOMAIN frame[p].out) = 2
        /\ \E k \in DOMAIN frame[p].out :
               /\ Len(frame[p].out[k]) = 2
               /\ frame[p].out[k][1].Confidence = 79
               /\ frame[p].out[k][2].Confidence = 80

\* caller p's UpdateSymbol merges an answer with candles into a stored series
MergeStep(p) ==
    /\ UpdFetchStep(p)
    /\ ~StepAnswer(p).err
    /\ Len(StepAnswer(p).klines) > 0

\* the merged sequence before the retention: the fetched candles adopted,
\* appended, or the latest candle overwritten
MergedSequence(p) ==
    LET old == StepOld(p)
        new == StepAnswer(p).klines
    IN  IF Len(old) = 0 THEN new
        ELSE IF Last(new).OpenTime > Last(old).OpenTime THEN old \o new
        ELSE [old EXCEPT ![Len(old)] = Last(new)]

\* C29: retention drops the oldest first.  When the merge of an
\* UpdateSymbol leaves a timeframe with more than 20 candles, the series
\* stored afterwards is the last 20 candles of the merged sequence in the
\* same order; otherwise it is the merged sequence.  Candles leave a series
\* only at its front.
C29_RetentionDropsOldest ==
    [][\A p \in Procs :
          MergeStep(p)
          => LET merged == MergedSequence(p)
                 n == Len(merged)
                 stored == StepNew(p)
             IN  /\ n > maxKeep
                      => /\ Len(stored) = maxKeep
                         /\ \A j \in 1..maxKeep :
                                stored[j] = merged[n - maxKeep + j]
                 /\ n <= maxKeep => stored = merged
                 /\ \E d \in 0..n :
                        stored = SubSeq(merged, d + 1, n)]_vars

\* an UpdateSymbol has appended two candles to a series of more than 20, and
\* the three oldest candles are gone
C29_Witness ==
    \E p \in Procs :
        /\ pc[p] \in {"upd_fetch", "upd_ret"}
        /\ Len(frame[p].resp) > 0
        /\ LET r == Last(frame[p].resp)
               tf == TimeFrames[Len(frame[p].resp)]
               old == MapGet(frame[p].before, tf)
               stored == MapGet(cache[frame[p].symbol], tf)
           IN  /\ ~r.err
               /\ Len(r.klines) = updateLimit
               /\ Len(old) = maxKeep + 1
               /\ Last(r.klines).OpenTime > Last(old).OpenTime
               /\ Len(stored) = maxKeep
               /\ stored[1] = old[updateLimit + 2]
               /\ Last(stored) = Last(r.klines)

\* C30: closed candles are immutable.  A merge of UpdateSymbol changes the
\* values of no candle but the last one of the series: the candles before
\* the last one stay as they are until they are evicted at the front.  A
\* candle that a later one has superseded holds the final value the
\* provider reported for its open_time: when the provider's answer holds a
\* candle for the open_time of a superseded candle, the two are equal.
C30_ClosedImmutable ==
    [][\A p \in Procs :
          MergeStep(p)
          => LET old == StepOld(p)
                 stored == StepNew(p)
                 answer == StepAnswer(p).klines
                 d == Len(MergedSequence(p)) - Len(stored)
             IN  /\ \A j \in (d + 1)..(Len(old) - 1) : stored[j - d] = old[j]
                 /\ \A j \in 1..(Len(stored) - 1) : \A k \in 1..Len(answer) :
                        answer[k].OpenTime = stored[j].OpenTime
                        => stored[j] = answer[k]]_vars

\* C31: a timeframe that the record lacks (its fetch failed in InitSymbol) or
\* whose series is empty is populated by the first pass of an UpdateSymbol
\* whose fetch for it answers with at least one candle: the series is then
\* exactly the fetched candles, GetKlines finds the timeframe and returns the
\* latest of them without an error, and a timeframe a record holds stays.
C31_AdoptWhenEmpty ==
    [][/\ \A p \in Procs :
              (MergeStep(p) /\ Len(StepOld(p)) = 0)
              => LET s == frame[p].symbol
                     tf == StepTf(p)
                 IN  /\ StepNew(p) = StepAnswer(p).klines
                     /\ HasSeries(cache'[s], tf)
                     /\ \A limit \in GetLimits :
                            ReadKlines(cache'[s], s, tf, limit) =
                                Result(GetSlice(StepAnswer(p).klines, limit), "nil")
       /\ \A s \in DOMAIN cache : \A tf \in DOMAIN cache[s] :
              s \in DOMAIN cache' /\ tf \in DOMAIN cache'[s]]_vars

\* an UpdateSymbol has fetched two candles for a timeframe the record lacked
\* when it began, and the series is these two candles
C31_Witness ==
    \E p \in Procs :
        /\ pc[p] \in {"upd_fetch", "upd_ret"}
        /\ Len(frame[p].resp) > 0
        /\ LET r == Last(frame[p].resp)
               tf == TimeFrames[Len(frame[p].resp)]
           IN  /\ ~r.err
               /\ Len(r.klines) = updateLimit
               /\ tf \notin DOMAIN frame[p].before
               /\ tf \in DOMAIN cache[frame[p].symbol]
               /\ cache[frame[p].symbol][tf] = r.klines

\* C32: a symbol initialized with maxKlines > 20 has a timeframe of more
\* than 20 candles.  The first pass of an UpdateSymbol whose fetch for it
\* answers with at least one candle leaves exactly 20 candles, the latest 20
\* of the merged sequence, whether the merge appended or overwrote; a pass
\* whose fetch failed or answered with no candle leaves the series as long
\* as it was.
C32_FirstUpdateTruncates ==
    [][\A p \in Procs :
          (UpdFetchStep(p) /\ Len(StepOld(p)) > maxKeep)
          => /\ initLimit[frame[p].symbol] > maxKeep
             /\ MergeStep(p)
                  => LET merged == MergedSequence(p)
                     IN  /\ Len(StepNew(p)) = maxKeep
                         /\ StepNew(p) = SubSeq(merged, Len(merged) - maxKeep + 1,
                                                Len(merged))
                         /\ Last(StepNew(p)) = Last(StepAnswer(p).klines)
             /\ ~MergeStep(p) => StepNew(p) = StepOld(p)]_vars

\* an UpdateSymbol has overwritten the latest candle of a series of 21, which
\* now has 20, and has then failed to fetch another timeframe, which keeps
\* its 21
C32_Witness ==
    \E p \in Procs : \E j \in 1..Len(frame[p].resp) : \E k \in 1..Len(frame[p].resp) :
        /\ pc[p] \in {"upd_fetch", "upd_ret"}
        /\ LET s == frame[p].symbol
               r == frame[p].resp[j]
               old == MapGet(frame[p].before, TimeFrames[j])
               stored == MapGet(cache[s], TimeFrames[j])
           IN  /\ initLimit[s] = maxKeep + 1
               /\ ~r.err
               /\ Len(r.klines) > 0
               /\ Len(old) = maxKeep + 1
               /\ Last(r.klines).OpenTime = Last(old).OpenTime
               /\ Len(stored) = maxKeep
               /\ stored[1] = old[2]
               /\ frame[p].resp[k].err
               /\ Len(MapGet(cache[s], TimeFrames[k])) = maxKeep + 1

\* caller p holds kc.mu, mtk.mu of symbol s
HoldsCache(p) == kcMu.w = p \/ p \in kcMu.r

HoldsRecord(p, s) == mtkMu[s].w = p \/ p \in mtkMu[s].r

\* the places of a call where it holds no lock: before its kc.mu is taken,
\* and after its return
Outside(p) ==
    pc[p] \in {"idle", "init_lock", "init_wait", "upd_lock", "upd_wait",
               "get_lock"}

\* the locks are taken in the order kc.mu, mtk.mu, in the same mode, and a
\* call holds none before it took kc.mu and after it returned
LockDiscipline ==
    \A p \in Procs :
        /\ \A s \in Symbols :
               /\ mtkMu[s].w = p => kcMu.w = p
               /\ p \in mtkMu[s].r => p \in kcMu.r
        /\ Outside(p) => /\ ~HoldsCache(p)
                         /\ \A s \in Symbols : ~HoldsRecord(p, s)

\* while a call is running, some running call can take a step
NoDeadlock ==
    (\E p \in Procs : pc[p] # "idle") => \E p \in Procs : ENABLED Running(p)

\* C33: deadlock freedom and completion.  With concurrent InitSymbol,
\* UpdateSymbol, GetKlines family and detector calls, when every provider
\* call returns, every call that has started returns; kc.mu is always taken
\* before mtk.mu, every lock a call took is released when it returns, on the
\* error returns too, and the running calls never all wait.
C33_CallsReturn ==
    /\ [](LockDiscipline /\ NoDeadlock)
    /\ \A p \in Procs : (pc[p] # "idle") ~> (pc[p] = "idle")

\* an UpdateSymbol waits in kc.mu.Lock() while a reader holds both read
\* locks
C33_Witness ==
    \E p \in Procs : \E q \in Procs :
        /\ pc[p] = "upd_wait"
        /\ pc[q] = "get_read"
        /\ kcMu.r = {q}
        /\ mtkMu[frame[q].symbol].r = {q}

\* caller q holds the klines a call of the GetKlines family handed to it
HoldsKlines(q) ==
    /\ pc[q] = "idle"
    /\ frame[q].op \in {"GetKlines", "GetLatestKline", "GetLatestTwoKlines"}
    /\ frame[q].ret = "nil"

\* C34: snapshot stability.  The klines GetKlines, GetLatestKline or
\* GetLatestTwoKlines handed to a caller keep the values they had when the
\* read locks were held: no step of another caller, an UpdateSymbol on the
\* same symbol included, changes them while the caller holds them.
C34_SnapshotStable ==
    [][\A q \in Procs :
          (HoldsKlines(q) /\ pc'[q] = "idle")
          => frame'[q].out = frame[q].out]_vars

\* C35: the open_time of the last stored candle of a series never decreases
\* across UpdateSymbol calls: when the provider answers with a latest candle
\* that opens before the stored latest one (a late or out-of-order answer),
\* the stored latest candle is not replaced by the older one.
C35_LastOpenTimeMonotone ==
    [][\A p \in Procs :
          (MergeStep(p) /\ Len(StepOld(p)) > 0)
          => /\ Len(StepNew(p)) > 0
             /\ Last(StepNew(p)).OpenTime >= Last(StepOld(p)).OpenTime]_vars

\* the signals of the list that are for the given timeframe
OfTimeFrame(signals, tf) == SelectSeq(signals, LAMBDA s : s.TimeFrame = tf)

\* C36: for every candle and every pair of candles DetectPinBar returns at
\* most one signal (the bullish and the bearish condition never hold
\* together), DetectEngulfing returns at most one signal, and so does
\* DetectVolumeSpike; hence DetectAllSignals returns at most three signals
\* for each timeframe it is asked for.
C36_AtMostOneSignal ==
    [][\A p \in Procs :
          /\ \A kind \in {"DetectPinBar", "DetectVolumeSpike", "DetectEngulfing"} :
                 GetReadStep(p, kind) => Len(Emitted(p)) <= 1
          /\ (pc'[p] = "idle" /\ frame'[p].op = "DetectAllSignals")
                 => \E tfs \in DetectLists :
                        /\ Len(frame'[p].out) <= Len(Rules) * Len(tfs)
                        /\ \A j \in 1..Len(tfs) :
                               Len(OfTimeFrame(frame'[p].out, tfs[j])) <= Len(Rules)]_vars

\* a DetectAllSignals has returned one signal for its first timeframe and
\* three, one of each rule, for its second
C36_Witness ==
    \E p \in Procs :
        /\ pc[p] = "idle"
        /\ frame[p].op = "DetectAllSignals"
        /\ Len(OfTimeFrame(frame[p].out, "15m")) = 1
        /\ Len(OfTimeFrame(frame[p].out, "5m")) = Len(Rules)
        /\ {frame[p].out[j].SignalType : j \in 2..4} =
               {"bullish_pin_bar", "volume_spike", "engulfing"}

\* C37: GetKlines never crashes, whatever integer its limit is: for limit 0
\* and for a negative limit on a series the record holds, empty or not, it
\* returns, without candles or with an error value, never with an index or
\* a slice out of range, and it never returns more than max(limit, 0)
\* candles.
C37_AnyLimit ==
    [][\A p \in Procs :
          GetReadStep(p, "GetKlines")
          => /\ frame'[p].ret # PanicOutOfRange
             /\ Len(frame'[p].out) <= Max(Head(frame[p].todo).limit, 0)]_vars

\* the call of waitForOrderFilled takes a step, polls the order status
WaitStep == waitVars' # waitVars

PollStep == polls' = polls + 1

\* the polls of the wait: checksPerSecond a second
PollBudget == checksPerSecond * maxWaitSeconds

\* what a step of waitForOrderFilled does
WaitStepOk ==
    /\ waitPc = "called"
           => maxWaitSeconds' = IF maxWaitSeconds <= 0 THEN defaultWaitSeconds
                                ELSE maxWaitSeconds
    /\ PollStep
           => /\ status' = "Filled" <=> waitRet' = "nil"
              /\ status' \in {"Cancelled", "Expired", "Rejected"}
                     <=> waitRet' = ErrNotFilled(status')
              /\ status' \in {"New", "PartiallyFilled", "Triggered", QueryFailed}
                     <=> (waitRet' = "none" /\ waitPc' = "loop")
              /\ waitRet' # ErrTimeout
    /\ (waitPc = "loop" /\ ~PollStep) => /\ waitRet' = ErrTimeout
                                         /\ waitPc' = "done"
    /\ (waitPc = "loop" /\ polls = PollBudget) => waitRet' = ErrTimeout
    /\ waitRet' # "none" <=> waitPc' = "done"

====
